---- MODULE Spec2Model ----
(***************************************************************************)
(* A state-machine model of the hotmike.app recording front end: the       *)
(* suggestion queue (AIContext), the media recorder hook, the transcription*)
(* channel (hook and class variants), device acquisition and the           *)
(* compositor's render loop.  Each component has its own specification     *)
(* (SpecSuggest, SpecRecorder, ...); the variables of the other components *)
(* stay at their initial values.                                           *)
(***************************************************************************)
EXTENDS Integers, Sequences, FiniteSets, TLC

VARIABLES
    \* ---- AIProvider (suggestion queue) ----
    suggestions,             \* Seq of suggestion ids, in queue order
    currentSuggestionIndex,  \* the pointer (an Int: the code can drive it below 0)
    lenSeen,                 \* suggestions.length as captured by the callbacks of the last render
    suggestionIdCounter,     \* module-level id counter
    nav,                     \* history: [nexts: the consecutive nextSuggestion calls just made,
                             \*   from: the pointer before them, afterAdds: nothing but
                             \*   addSuggestion calls came before them since the queue was reset,
                             \*   and each of them was made after the render that followed the adds]
    \* ---- Compositor ----
    animationId,             \* this.animationId (0 stands for null)
    rafPending,              \* ids of the frame callbacks the browser still holds
    rafCounter,              \* last id requestAnimationFrame handed out
    framesRendered,          \* number of renderFrame() executions
    loopWanted,              \* history: TRUE after start(), FALSE after stop()
    layout,                  \* this.layout
    pipPosition,             \* this.options.pipPosition
    pipSize,                 \* this.options.pipSize
    canvasOps,               \* the draw calls of the last renderFrame(), in order
    \* ---- Compositor sources and name card ----
    webcamVideo,             \* this.webcamVideo: "null", or the element's readiness
    screenVideo,             \* this.screenVideo
    nameCardText,            \* this.options.nameCardText
    nameCardTitle,           \* this.options.nameCardTitle
    \* ---- overlay slot (Compositor) and insert handler (RecordPage) ----
    overlayImage,            \* this.overlayImage (0 stands for null, else the url loaded)
    overlayOptions,          \* this.overlayOptions: [position, scale]
    overlayLoads,            \* Image loads in flight: [call, url, owner, suggestion]
    fetches,                 \* /api/generate-image requests in flight: [call, suggestion]
    insertCounter,           \* number of setOverlayImage / fetch calls begun
    hasOverlay,              \* RecordPage state hasOverlay
    overlayImageUrl,         \* RecordPage state overlayImageUrl (0 stands for null)
    isGeneratingImage,       \* RecordPage state isGeneratingImage
    overlayPosition,         \* RecordPage state overlayPosition (of the draggable preview)
    latestCall,              \* history: [call, url, loaded] of the setOverlayImage(url) call
                             \*   begun last (NoCall after a clear)
    \* ---- frame geometry (getPIPPosition, drawVideoFullFrame) ----
    pipVariant,              \* which Compositor runs: "circle" (compositor.ts) or "legacy"
    videoSize,               \* [w, h]: videoWidth and videoHeight of the source element
    lastPip,                 \* the last PIP rectangle computed, with its inputs (or NoRect)
    lastCrop,                \* the last full-frame crop computed, with its inputs (or NoRect)
    \* ---- messages of the transcription channel (hook) ----
    audioChunkCalls,         \* history: the chunks sendAudioChunk was called with, in order
    readers,                 \* FileReader encodings in flight: [id, chunk, socket (history:
                             \*   the socket in wsRef when sendAudioChunk was called)]
    wireCalls,               \* number of send-function calls made so far
    suggestionOrigin,        \* history: [id, item] for each suggestion an inbound event
                             \*   added: the place of its item in the list of the event
    inboundCount,            \* number of message events handled so far
    \* ---- useMediaDevices ----
    streams,                 \* every MediaStream acquired so far: [kind, tracks (the live ones)]
    webcamRef,               \* webcamRef.current (0 stands for null, else an index of streams)
    screenRef,               \* screenRef.current
    webcamStream,            \* state.webcamStream
    screenStream,            \* state.screenStream
    mediaError,              \* state.error ("none" stands for null)
    deviceCalls,             \* requestWebcam/requestScreen calls suspended at their await
    deviceCallCounter,       \* number of request calls made so far
    overlapped,              \* history: per kind, has a request begun while another was pending
    devicesMounted,          \* FALSE once the owning component has unmounted
    \* ---- useMediaRecorder ----
    now,                     \* Date.now(), in whole seconds
    recorders,               \* every MediaRecorder created: [state, stopPending, nSlices,
                             \*   emitted (history: the numbers of its non-empty slices)]
    recorderRef,             \* recorderRef.current (0 stands for null, else an index of recorders)
    chunksRef,               \* chunksRef.current: the slices collected, << recorder, n >> each
    timerRef,                \* timerRef.current (0 stands for null, else an interval id)
    durationTimers,          \* ids of the duration intervals that are still set
    timerCounter,            \* last interval id handed out by setInterval
    startTimeRef,            \* startTimeRef.current
    audioContextRef,         \* audioContextRef.current (0 stands for null, else a context id)
    audioContexts,           \* ids of the AudioContexts that are open
    audioContextCounter,     \* number of AudioContexts created so far
    isRecording,             \* state.isRecording
    isPaused,                \* state.isPaused
    duration,                \* state.duration
    recordedBlob,            \* state.recordedBlob
    activeTime,              \* history: seconds the current recorder has spent in state 'recording'
    phase,                   \* history: how far the run follows start, pause, resume, stop
    \* ---- transcription channel (useTranscriptionWebSocket / TranscriptionWebSocket) ----
    chanVariant,             \* which implementation runs: "hook" or "class"
    enabled,                 \* hook prop enabled
    sessionId,               \* hook prop sessionId (0 stands for null)
    hasToken,                \* localStorage holds hotmike_token
    sockets,                 \* every WebSocket created: [state, session, everOpen]
    wsRef,                   \* wsRef.current / this.ws (0 stands for null, else an index of sockets)
    reconnectTimers,         \* pending reconnect timeouts: [id, session, delay]
    reconnectTimeoutRef,     \* reconnectTimeoutRef.current (0 stands for null)
    chanTimerCounter,        \* last id handed out by setTimeout / setInterval
    pingIntervals,           \* keepalive intervals that are set: [id, socket]
    pingIntervalRef,         \* pingIntervalRef.current / this.pingInterval (0 stands for null)
    isConnected,             \* hook state isConnected
    isConnecting,            \* class field isConnecting
    reconnectAttempts,       \* class field reconnectAttempts
    classWanted,             \* history (class): connect() was called and disconnect() not since
    chanMounted,             \* hook: FALSE once the component has unmounted
    ownerCalls,              \* history: props changes (hook) or connect() / disconnect() calls (class)
    \* ---- AIProvider (transcript buffer) ----
    transcript,              \* Seq of segments [text (a sequence of words), timestamp]
    aiSessionId,             \* AIProvider state sessionId: NoSession (null) or [time, rand]
    \* ---- useVoiceCommands ----
    voiceNow,                \* Date.now() of the matcher's clock, in whole seconds
    voiceEnabled,            \* the hook's enabled argument
    lastProcessedIndex,      \* lastProcessedIndex.current
    cooldownRef,             \* cooldownRef.current
    cooldownTimers,          \* due times of the pending cooldown timeouts
    checkIntervalDue,        \* due time of the rolling-window interval (0 stands for none set)
    invoked,                 \* history: the callbacks invoked so far, [command, at] each
    matcherOnFromEmpty,      \* history: the matcher is enabled and was when the transcript was empty
    \* ---- RecordPage (start flow) and CountdownOverlay ----
    mode,                    \* RecordPage state mode
    isStartingRecording,     \* RecordPage state isStartingRecording
    isAIAvailable,           \* useAI().isAIAvailable
    pageNameCardText,        \* the name typed in the setup form (0 stands for '')
    nameCardFetch,           \* the /api/generate-name-card request: "none" or "pending"
    windowNameCardImageUrl,  \* window.__nameCardImageUrl (0 stands for null / undefined)
    count,                   \* CountdownOverlay state count
    countdownTimer,          \* the one-second timeout of the countdown is pending
    effectDue,               \* a render of CountdownOverlay is committed, its effect not yet run
    pageMounted,             \* FALSE once React has unmounted the page
    startLog,                \* history: [presses, activations, ticks and completes (of the
                             \*   last activation), compositor, recorder, session (calls of
                             \*   start(), startRecording, startSession so far)]
    \* ---- history ----
    lastOp                   \* the last operation performed, with its arguments

compositorVars == << animationId, rafPending, rafCounter, framesRendered, loopWanted,
                     layout, pipPosition, pipSize, canvasOps >>

sourceVars == << webcamVideo, screenVideo, nameCardText, nameCardTitle >>

overlayVars == << overlayImage, overlayOptions, overlayLoads, fetches, insertCounter,
                  hasOverlay, overlayImageUrl, isGeneratingImage, overlayPosition,
                  latestCall >>

suggestVars == << suggestions, currentSuggestionIndex, lenSeen, suggestionIdCounter, nav >>

devicesVars == << streams, webcamRef, screenRef, webcamStream, screenStream, mediaError,
                  deviceCalls, deviceCallCounter, overlapped, devicesMounted >>

recorderVars == << now, recorders, recorderRef, chunksRef, timerRef, durationTimers,
                   timerCounter, startTimeRef, audioContextRef, audioContexts,
                   audioContextCounter, isRecording, isPaused, duration, recordedBlob,
                   activeTime, phase >>

channelVars == << chanVariant, enabled, sessionId, hasToken, sockets, wsRef, reconnectTimers,
                  reconnectTimeoutRef, chanTimerCounter, pingIntervals, pingIntervalRef,
                  isConnected, isConnecting, reconnectAttempts, classWanted, chanMounted,
                  ownerCalls >>

transcriptVars == << transcript >>

sessionVars == << aiSessionId >>

voiceVars == << voiceNow, voiceEnabled, lastProcessedIndex, cooldownRef, cooldownTimers,
                checkIntervalDue, invoked, matcherOnFromEmpty >>

geometryVars == << pipVariant, videoSize, lastPip, lastCrop >>

\* The components added last; a step of an earlier component leaves them alone.
wireVars == << audioChunkCalls, readers, wireCalls >>

inboundVars == << suggestionOrigin, inboundCount >>

pageVars == << mode, isStartingRecording, isAIAvailable, pageNameCardText, nameCardFetch,
              windowNameCardImageUrl, count, countdownTimer, effectDue, pageMounted,
              startLog >>

restVars == << geometryVars, wireVars, inboundVars, pageVars >>

vars == << suggestVars, compositorVars, devicesVars, recorderVars, channelVars,
           transcriptVars, sessionVars, voiceVars, sourceVars, overlayVars, restVars, lastOp >>

\* What a step of one component leaves alone: every other component's variables.
OnlySuggest ==
    UNCHANGED << compositorVars, devicesVars, recorderVars, channelVars,
                 transcriptVars, sessionVars, voiceVars, sourceVars, overlayVars, restVars >>

OnlyCompositor ==
    UNCHANGED << suggestVars, devicesVars, recorderVars, channelVars,
                 transcriptVars, sessionVars, voiceVars, sourceVars, overlayVars, restVars >>

OnlyDevices ==
    UNCHANGED << suggestVars, compositorVars, recorderVars, channelVars,
                 transcriptVars, sessionVars, voiceVars, sourceVars, overlayVars, restVars >>

OnlyRecorder ==
    UNCHANGED << suggestVars, compositorVars, devicesVars, channelVars,
                 transcriptVars, sessionVars, voiceVars, sourceVars, overlayVars, restVars >>

OnlyChannel ==
    UNCHANGED << suggestVars, compositorVars, devicesVars, recorderVars,
                 transcriptVars, sessionVars, voiceVars, sourceVars, overlayVars, restVars >>

\* A step of the voice matcher may also append to the transcript buffer.
OnlyVoice ==
    UNCHANGED << suggestVars, compositorVars, devicesVars, recorderVars, channelVars,
                 sessionVars, sourceVars, overlayVars, restVars >>

\* A step on the sources or the name card of the compositor.
OnlySources ==
    UNCHANGED << suggestVars, compositorVars, devicesVars, recorderVars, channelVars,
                 transcriptVars, sessionVars, voiceVars, overlayVars, restVars >>

\* A step of the overlay slot or of the insert handler, which may also accept a
\* suggestion.
OnlyOverlay ==
    UNCHANGED << compositorVars, devicesVars, recorderVars, channelVars,
                 transcriptVars, sessionVars, voiceVars, sourceVars, restVars >>

----------------------------------------------------------------------------
\* Helpers

Max(a, b) == IF a >= b THEN a ELSE b

Min(a, b) == IF a <= b THEN a ELSE b

\* JavaScript's remainder: the result takes the sign of the dividend.
JsRem(a, b) == IF a >= 0 THEN a % b ELSE 0 - ((0 - a) % b)

\* Array.prototype.filter((s) => s.id !== id)
RECURSIVE FilterOut(_, _)
FilterOut(seq, id) ==
    IF seq = << >> THEN << >>
    ELSE IF Head(seq) = id THEN FilterOut(Tail(seq), id)
         ELSE << Head(seq) >> \o FilterOut(Tail(seq), id)

SeqRange(seq) == { seq[i] : i \in 1..Len(seq) }

----------------------------------------------------------------------------
\* Suggestion queue (AIProvider)

\* Bound: how many suggestions are ever created in one run.
MaxSuggestionIds == 3

SuggestionIds == 1..MaxSuggestionIds

InitSuggest ==
    /\ suggestions = << >>
    /\ currentSuggestionIndex = 0
    /\ lenSeen = 0
    /\ suggestionIdCounter = 0
    /\ nav = [nexts |-> 0, from |-> 0, afterAdds |-> TRUE]

\* addSuggestion: append a fresh suggestion (id from the global counter).
addSuggestion ==
    /\ suggestionIdCounter < MaxSuggestionIds
    /\ suggestionIdCounter' = suggestionIdCounter + 1
    /\ suggestions' = Append(suggestions, suggestionIdCounter + 1)
    /\ nav' = [nexts |-> 0, from |-> currentSuggestionIndex,
               afterAdds |-> (nav.afterAdds /\ nav.nexts = 0)]
    /\ UNCHANGED << currentSuggestionIndex, lenSeen >>
    /\ OnlySuggest
    /\ lastOp' = [op |-> "addSuggestion"]

\* The pointer update of acceptSuggestion: Math.max(0, prev - 1).
AcceptIndex(prev) == Max(0, prev - 1)

acceptSuggestion(id) ==
    /\ suggestions' = FilterOut(suggestions, id)
    /\ currentSuggestionIndex' = AcceptIndex(currentSuggestionIndex)
    /\ nav' = [nexts |-> 0, from |-> currentSuggestionIndex', afterAdds |-> FALSE]
    /\ UNCHANGED << lenSeen, suggestionIdCounter >>
    /\ OnlySuggest
    /\ lastOp' = [op |-> "acceptSuggestion", id |-> id]

\* (mutant) dismissSuggestion leaves the pointer where it is.
DismissIndex_Keep(prev, len) == prev

\* The pointer update of dismissSuggestion; len is the captured suggestions.length.
DismissIndex(prev, len) ==
    LET newLength == len - 1
    IN  IF newLength = 0 THEN 0 ELSE Min(prev, newLength - 1)

dismissSuggestion(id) ==
    /\ suggestions' = FilterOut(suggestions, id)
    /\ currentSuggestionIndex' = DismissIndex(currentSuggestionIndex, lenSeen)
    /\ nav' = [nexts |-> 0, from |-> currentSuggestionIndex', afterAdds |-> FALSE]
    /\ UNCHANGED << lenSeen, suggestionIdCounter >>
    /\ OnlySuggest
    /\ lastOp' = [op |-> "dismissSuggestion", id |-> id, navBefore |-> nav,
                   lenBefore |-> Len(suggestions),
                   rendered |-> (lenSeen = Len(suggestions)),
                   currentWasLast |-> ( /\ Len(suggestions) > 0
                                        /\ currentSuggestionIndex = Len(suggestions) - 1
                                        /\ suggestions[Len(suggestions)] = id )]

\* How many consecutive nextSuggestion calls the history keeps count of.
NextsTracked == MaxSuggestionIds + 1

\* What the previous operation was, when it was a pointer move: its name and the
\* pointer before it ("none" otherwise).
PriorNav ==
    IF lastOp.op \in { "nextSuggestion", "prevSuggestion" }
    THEN [op |-> lastOp.op, indexBefore |-> lastOp.indexBefore]
    ELSE [op |-> "none", indexBefore |-> 0]

\* The pointer update of nextSuggestion; len is the captured suggestions.length.
NextIndex(prev, len) == IF len > 0 THEN JsRem(prev + 1, len) ELSE 0

nextSuggestion ==
    /\ currentSuggestionIndex' = NextIndex(currentSuggestionIndex, lenSeen)
    /\ nav' = IF nav.nexts < NextsTracked
              THEN [nav EXCEPT !.nexts = @ + 1,
                               !.afterAdds = @ /\ lenSeen = Len(suggestions)]
              ELSE [nexts |-> 1, from |-> currentSuggestionIndex, afterAdds |-> FALSE]
    /\ UNCHANGED << suggestions, lenSeen, suggestionIdCounter >>
    /\ OnlySuggest
    /\ lastOp' = [op |-> "nextSuggestion", indexBefore |-> currentSuggestionIndex,
                   prior |-> PriorNav]

\* The pointer update of prevSuggestion; len is the captured suggestions.length.
PrevIndex(prev, len) == IF len > 0 THEN JsRem(prev - 1 + len, len) ELSE 0

prevSuggestion ==
    /\ currentSuggestionIndex' = PrevIndex(currentSuggestionIndex, lenSeen)
    /\ nav' = [nexts |-> 0, from |-> currentSuggestionIndex', afterAdds |-> FALSE]
    /\ UNCHANGED << suggestions, lenSeen, suggestionIdCounter >>
    /\ OnlySuggest
    /\ lastOp' = [op |-> "prevSuggestion", indexBefore |-> currentSuggestionIndex,
                   prior |-> PriorNav]

\* (mutant) clearSuggestions empties the queue and leaves the pointer.
ClearSuggestionsBody_KeepPointer ==
    /\ suggestions' = << >>
    /\ UNCHANGED currentSuggestionIndex
    /\ nav' = [nexts |-> 0, from |-> 0, afterAdds |-> TRUE]

\* The two state updates of clearSuggestions.
ClearSuggestionsBody ==
    /\ suggestions' = << >>
    /\ currentSuggestionIndex' = 0
    /\ nav' = [nexts |-> 0, from |-> 0, afterAdds |-> TRUE]

clearSuggestions ==
    /\ ClearSuggestionsBody
    /\ UNCHANGED << lenSeen, suggestionIdCounter >>
    /\ OnlySuggest
    /\ lastOp' = [op |-> "clearSuggestions", lenBefore |-> Len(suggestions),
                   indexBefore |-> currentSuggestionIndex, transcriptBefore |-> transcript,
                   sessionBefore |-> aiSessionId]

\* React commits a render: the callbacks are re-created with the current length.
RenderAIProvider ==
    /\ lenSeen # Len(suggestions)
    /\ lenSeen' = Len(suggestions)
    /\ UNCHANGED << suggestions, currentSuggestionIndex, suggestionIdCounter, nav >>
    /\ OnlySuggest
    /\ lastOp' = [op |-> "render"]

\* getCurrentSuggestion: suggestions[currentSuggestionIndex] || null (0 stands for null).
getCurrentSuggestion ==
    IF Len(suggestions) = 0 THEN 0
    ELSE IF currentSuggestionIndex >= 0 /\ currentSuggestionIndex < Len(suggestions)
         THEN suggestions[currentSuggestionIndex + 1]
         ELSE 0

NextSuggest ==
    \/ addSuggestion
    \/ \E id \in SuggestionIds : acceptSuggestion(id)
    \/ \E id \in SuggestionIds : dismissSuggestion(id)
    \/ nextSuggestion
    \/ prevSuggestion
    \/ clearSuggestions
    \/ RenderAIProvider

\* Compositor: the render loop (start / stop / renderLoop)

\* Bound: how many animation frames are requested in one run.
MaxRaf == 4

Layouts == { "face_card", "face_only", "screen_pip" }

PIPPositions == { "top-left", "top-right", "bottom-left", "bottom-right" }

PIPSizes == { "small", "medium", "large" }

InitCompositor ==
    /\ animationId = 0
    /\ rafPending = {}
    /\ rafCounter = 0
    /\ framesRendered = 0
    /\ loopWanted = FALSE
    /\ layout = "face_only"
    /\ pipPosition = "bottom-right"
    /\ pipSize = "medium"
    /\ canvasOps = << >>

\* drawVideoFullFrame(video): nothing unless the element is set and has a frame.
drawVideoFullFrame(video, name) ==
    IF video = "null" \/ video # "ready"
    THEN << >>
    ELSE << [op |-> name, source |-> video] >>

drawWebcamFullFrame == drawVideoFullFrame(webcamVideo, "webcamFullFrame")

drawScreenFullFrame == drawVideoFullFrame(screenVideo, "screenFullFrame")

\* drawWebcamPIP(): the clipped inset and its border, unless the webcam has no frame.
drawWebcamPIP ==
    IF webcamVideo = "null" \/ webcamVideo # "ready"
    THEN << >>
    ELSE << [op |-> "webcamPIP", source |-> webcamVideo] >>

\* drawNameCard(): nothing when both lines are empty.
drawNameCard ==
    IF nameCardText = "" /\ nameCardTitle = ""
    THEN << >>
    ELSE << [op |-> "nameCard", source |-> << nameCardText, nameCardTitle >>] >>

\* drawOverlay(): nothing unless an overlay image is set.
drawOverlay ==
    IF overlayImage = 0
    THEN << >>
    ELSE << [op |-> "overlay", source |-> overlayImage] >>

\* (mutant) renderFrame that draws the overlay before the layout.
renderFrame_OverlayFirst ==
    << [op |-> "clear", source |-> "#000"] >>
    \o drawOverlay
    \o ( CASE layout = "face_card"  -> drawWebcamFullFrame \o drawNameCard
           [] layout = "face_only"  -> drawWebcamFullFrame
           [] layout = "screen_pip" -> drawScreenFullFrame \o drawWebcamPIP
           [] OTHER -> << >> )

\* renderFrame(): fill the canvas black, draw the layout, draw the overlay.
renderFrame ==
    << [op |-> "clear", source |-> "#000"] >>
    \o ( CASE layout = "face_card"  -> drawWebcamFullFrame \o drawNameCard
           [] layout = "face_only"  -> drawWebcamFullFrame
           [] layout = "screen_pip" -> drawScreenFullFrame \o drawWebcamPIP
           [] OTHER -> << >> )
    \o drawOverlay

\* renderLoop: renderFrame(), then animationId = requestAnimationFrame(renderLoop).
\* pending is the set of callbacks the browser holds when renderLoop is entered.
renderLoop(pending) ==
    /\ rafCounter < MaxRaf
    /\ framesRendered' = framesRendered + 1
    /\ canvasOps' = renderFrame
    /\ rafCounter' = rafCounter + 1
    /\ animationId' = rafCounter + 1
    /\ rafPending' = pending \cup { rafCounter + 1 }

\* (mutant) start() without the animationId guard.
Compositor_start_NoGuard ==
    /\ renderLoop(rafPending)
    /\ loopWanted' = TRUE
    /\ UNCHANGED << layout, pipPosition, pipSize >>
    /\ OnlyCompositor
    /\ lastOp' = [op |-> "start", wasRunning |-> animationId # 0,
                   afterStop |-> (~loopWanted /\ framesRendered > 0)]

\* start(): a no-op while animationId is set, else the first renderLoop() call.
Compositor_startBody ==
    /\ IF animationId # 0
       THEN UNCHANGED << animationId, rafPending, rafCounter, framesRendered, canvasOps >>
       ELSE renderLoop(rafPending)
    /\ loopWanted' = TRUE
    /\ UNCHANGED << layout, pipPosition, pipSize >>

Compositor_start ==
    /\ Compositor_startBody
    /\ OnlyCompositor
    /\ lastOp' = [op |-> "start", wasRunning |-> animationId # 0,
                   afterStop |-> (~loopWanted /\ framesRendered > 0)]

\* (mutant) stop() that forgets cancelAnimationFrame.
Compositor_stop_NoCancel ==
    /\ animationId' = 0
    /\ loopWanted' = FALSE
    /\ UNCHANGED << rafPending, rafCounter, framesRendered, canvasOps, layout, pipPosition, pipSize >>
    /\ OnlyCompositor
    /\ lastOp' = [op |-> "stop"]

\* stop(): cancelAnimationFrame(animationId) and animationId = null, when it is set.
Compositor_stopBody ==
    /\ IF animationId # 0
       THEN /\ rafPending' = rafPending \ { animationId }
            /\ animationId' = 0
       ELSE UNCHANGED << animationId, rafPending >>
    /\ loopWanted' = FALSE
    /\ UNCHANGED << rafCounter, framesRendered, canvasOps, layout, pipPosition, pipSize >>

Compositor_stop ==
    /\ Compositor_stopBody
    /\ OnlyCompositor
    /\ lastOp' = [op |-> "stop"]

\* The browser runs a pending frame callback: renderLoop renders and re-schedules.
FrameCallback(id) ==
    /\ id \in rafPending
    /\ renderLoop(rafPending \ { id })
    /\ UNCHANGED << loopWanted, layout, pipPosition, pipSize >>
    /\ OnlyCompositor
    /\ lastOp' = [op |-> "frame", id |-> id]

setLayout(l) ==
    /\ layout' = l
    /\ UNCHANGED << animationId, rafPending, rafCounter, framesRendered, canvasOps, loopWanted,
                    pipPosition, pipSize >>
    /\ OnlyCompositor
    /\ lastOp' = [op |-> "setLayout"]

\* setOptions(partial): the given fields replace the stored ones.
setOptions(pos, size) ==
    /\ pipPosition' = pos
    /\ pipSize' = size
    /\ UNCHANGED << animationId, rafPending, rafCounter, framesRendered, canvasOps, loopWanted, layout >>
    /\ OnlyCompositor
    /\ lastOp' = [op |-> "setOptions"]

NextCompositor ==
    \/ Compositor_start
    \/ Compositor_stop
    \/ \E id \in 1..MaxRaf : FrameCallback(id)
    \/ \E l \in Layouts : setLayout(l)
    \/ \E pos \in PIPPositions, size \in PIPSizes : setOptions(pos, size)

----------------------------------------------------------------------------
\* useMediaDevices: stream acquisition

\* Bound: how many requestWebcam/requestScreen calls are made in one run.
MaxDeviceCalls == 4

SourceKinds == { "webcam", "screen" }

AcquisitionErrors == { "Permission denied", "Requested device not found" }

InitDevices ==
    /\ streams = << >>
    /\ webcamRef = 0
    /\ screenRef = 0
    /\ webcamStream = 0
    /\ screenStream = 0
    /\ mediaError = "none"
    /\ deviceCalls = {}
    /\ deviceCallCounter = 0
    /\ overlapped = [k \in SourceKinds |-> FALSE]
    /\ devicesMounted = TRUE

RefOf(kind) == IF kind = "webcam" THEN webcamRef ELSE screenRef

OtherKind(kind) == IF kind = "webcam" THEN "screen" ELSE "webcam"

IsLive(i) == i # 0 /\ streams[i].tracks # {}

\* stream.getTracks().forEach(track => track.stop())
StopTracks(strs, i) == IF i = 0 THEN strs ELSE [strs EXCEPT ![i].tracks = {}]

\* The track sets getUserMedia / getDisplayMedia can deliver: a webcam request asks
\* for video and audio; a screen share always has video, audio if the user shares it.
GrantedTracks(kind) ==
    IF kind = "webcam" THEN { { "video", "audio" } }
    ELSE { { "video" }, { "video", "audio" } }

\* history: every suspended call has seen another operation run meanwhile
Disturbed(calls) == { [c EXCEPT !.disturbed = TRUE] : c \in calls }

\* setState is dropped once the component is unmounted
SetMediaState(ws, ss, err) ==
    IF devicesMounted
    THEN webcamStream' = ws /\ screenStream' = ss /\ mediaError' = err
    ELSE UNCHANGED << webcamStream, screenStream, mediaError >>

\* (mutant) the request is issued without stopping the tracks already held.
RequestBegin_NoStop(kind) ==
    /\ devicesMounted
    /\ deviceCallCounter < MaxDeviceCalls
    /\ deviceCallCounter' = deviceCallCounter + 1
    /\ deviceCalls' = Disturbed(deviceCalls) \cup
          { [ id |-> deviceCallCounter + 1, kind |-> kind, disturbed |-> FALSE,
              refBefore |-> RefOf(kind), liveBefore |-> IsLive(RefOf(kind)),
              otherBefore |-> RefOf(OtherKind(kind)),
              otherLiveBefore |-> IsLive(RefOf(OtherKind(kind))) ] }
    /\ overlapped' = [overlapped EXCEPT
                        ![kind] = @ \/ (\E c \in deviceCalls : c.kind = kind)]
    /\ UNCHANGED << streams, webcamRef, screenRef, webcamStream, screenStream, mediaError,
                    devicesMounted >>
    /\ OnlyDevices
    /\ lastOp' = [op |-> "request", kind |-> kind]

\* requestWebcam / requestScreen up to the await: stop the tracks of the stream
\* currently held, then issue getUserMedia / getDisplayMedia.
RequestBegin(kind) ==
    /\ devicesMounted
    /\ deviceCallCounter < MaxDeviceCalls
    /\ streams' = StopTracks(streams, RefOf(kind))
    /\ deviceCallCounter' = deviceCallCounter + 1
    /\ deviceCalls' = Disturbed(deviceCalls) \cup
          { [ id |-> deviceCallCounter + 1, kind |-> kind, disturbed |-> FALSE,
              refBefore |-> RefOf(kind), liveBefore |-> IsLive(RefOf(kind)),
              otherBefore |-> RefOf(OtherKind(kind)),
              otherLiveBefore |-> IsLive(RefOf(OtherKind(kind))) ] }
    /\ overlapped' = [overlapped EXCEPT
                        ![kind] = @ \/ (\E c \in deviceCalls : c.kind = kind)]
    /\ UNCHANGED << webcamRef, screenRef, webcamStream, screenStream, mediaError,
                    devicesMounted >>
    /\ OnlyDevices
    /\ lastOp' = [op |-> "request", kind |-> kind]

requestWebcam == RequestBegin("webcam")

requestScreen == RequestBegin("screen")

\* The awaited promise resolves with a new stream, which is installed.
RequestResolved(c) ==
    /\ c \in deviceCalls
    /\ \E tr \in GrantedTracks(c.kind) :
          streams' = Append(streams, [kind |-> c.kind, tracks |-> tr])
    /\ deviceCalls' = Disturbed(deviceCalls \ { c })
    /\ IF c.kind = "webcam"
       THEN /\ webcamRef' = Len(streams) + 1
            /\ SetMediaState(Len(streams) + 1, screenStream, "none")
            /\ UNCHANGED screenRef
       ELSE /\ screenRef' = Len(streams) + 1
            /\ SetMediaState(webcamStream, Len(streams) + 1, "none")
            /\ UNCHANGED webcamRef
    /\ UNCHANGED << deviceCallCounter, overlapped, devicesMounted >>
    /\ OnlyDevices
    /\ lastOp' = [op |-> "requestResolved", kind |-> c.kind, refBefore |-> c.refBefore,
                   liveBefore |-> c.liveBefore]

\* The awaited promise rejects: the message is stored in state.error and rethrown.
RequestRejected(c, err) ==
    /\ c \in deviceCalls
    /\ deviceCalls' = deviceCalls \ { c }
    /\ SetMediaState(webcamStream, screenStream, err)
    /\ UNCHANGED << streams, webcamRef, screenRef, deviceCallCounter, overlapped,
                    devicesMounted >>
    /\ OnlyDevices
    /\ lastOp' = [op |-> "requestFailed", kind |-> c.kind, thrown |-> err,
                   disturbed |-> c.disturbed,
                   refBefore |-> c.refBefore, liveBefore |-> c.liveBefore,
                   otherBefore |-> c.otherBefore, otherLiveBefore |-> c.otherLiveBefore]

stopWebcam ==
    /\ devicesMounted
    /\ IF webcamRef # 0
       THEN /\ streams' = StopTracks(streams, webcamRef)
            /\ webcamRef' = 0
            /\ webcamStream' = 0
       ELSE UNCHANGED << streams, webcamRef, webcamStream >>
    /\ deviceCalls' = Disturbed(deviceCalls)
    /\ UNCHANGED << screenRef, screenStream, mediaError, deviceCallCounter, overlapped,
                    devicesMounted >>
    /\ OnlyDevices
    /\ lastOp' = [op |-> "stopWebcam"]

stopScreen ==
    /\ devicesMounted
    /\ IF screenRef # 0
       THEN /\ streams' = StopTracks(streams, screenRef)
            /\ screenRef' = 0
            /\ screenStream' = 0
       ELSE UNCHANGED << streams, screenRef, screenStream >>
    /\ deviceCalls' = Disturbed(deviceCalls)
    /\ UNCHANGED << webcamRef, webcamStream, mediaError, deviceCallCounter, overlapped,
                    devicesMounted >>
    /\ OnlyDevices
    /\ lastOp' = [op |-> "stopScreen"]

\* stopAll(): stopWebcam(); stopScreen();
stopAll ==
    /\ devicesMounted
    /\ streams' = StopTracks(StopTracks(streams, webcamRef), screenRef)
    /\ webcamRef' = 0
    /\ screenRef' = 0
    /\ webcamStream' = (IF webcamRef # 0 THEN 0 ELSE webcamStream)
    /\ screenStream' = (IF screenRef # 0 THEN 0 ELSE screenStream)
    /\ deviceCalls' = Disturbed(deviceCalls)
    /\ UNCHANGED << mediaError, deviceCallCounter, overlapped, devicesMounted >>
    /\ OnlyDevices
    /\ lastOp' = [op |-> "stopAll"]

\* The user ends the screen share from the browser: the capture's tracks end and
\* the 'ended' listener registered by requestScreen on its video track runs.
ScreenTrackEnded(i) ==
    /\ i \in 1..Len(streams)
    /\ streams[i].kind = "screen"
    /\ "video" \in streams[i].tracks
    /\ streams' = StopTracks(streams, i)
    /\ screenRef' = 0
    /\ SetMediaState(webcamStream, 0, mediaError)
    /\ deviceCalls' = Disturbed(deviceCalls)
    /\ UNCHANGED << webcamRef, deviceCallCounter, overlapped, devicesMounted >>
    /\ OnlyDevices
    /\ lastOp' = [op |-> "screenEnded", stream |-> i]

\* Unmount: the effect cleanup stops the tracks of both held streams.
DevicesUnmount ==
    /\ devicesMounted
    /\ devicesMounted' = FALSE
    /\ streams' = StopTracks(StopTracks(streams, webcamRef), screenRef)
    /\ deviceCalls' = Disturbed(deviceCalls)
    /\ UNCHANGED << webcamRef, screenRef, webcamStream, screenStream, mediaError,
                    deviceCallCounter, overlapped >>
    /\ OnlyDevices
    /\ lastOp' = [op |-> "unmount"]

NextDevices ==
    \/ requestWebcam
    \/ requestScreen
    \/ \E c \in deviceCalls : RequestResolved(c)
    \/ \E c \in deviceCalls, err \in AcquisitionErrors : RequestRejected(c, err)
    \/ stopWebcam
    \/ stopScreen
    \/ stopAll
    \/ \E i \in 1..Len(streams) : ScreenTrackEnded(i)
    \/ DevicesUnmount

----------------------------------------------------------------------------
\* useMediaRecorder: the recording state machine

\* Bounds: the clock's last second, the recorders created and the timeslice
\* events one recorder delivers in one run.
MaxTime == 4

MaxRecorders == 2

MaxSlices == 1

NullBlob == [isNull |-> TRUE, chunks |-> << >>]

InitRecorder ==
    /\ now = 0
    /\ recorders = << >>
    /\ recorderRef = 0
    /\ chunksRef = << >>
    /\ timerRef = 0
    /\ durationTimers = {}
    /\ timerCounter = 0
    /\ startTimeRef = 0
    /\ audioContextRef = 0
    /\ audioContexts = {}
    /\ audioContextCounter = 0
    /\ isRecording = FALSE
    /\ isPaused = FALSE
    /\ duration = 0
    /\ recordedBlob = NullBlob
    /\ activeTime = 0
    /\ phase = "idle"

\* MediaRecorder.state of the recorder held in recorderRef ("none" without one).
RecorderState == IF recorderRef = 0 THEN "none" ELSE recorders[recorderRef].state

\* startRecording: reset the chunks, build the combined stream (a new AudioContext),
\* create and start the recorder, note the start time, start the 100 ms duration timer.
startRecordingBody ==
    /\ Len(recorders) < MaxRecorders
    /\ chunksRef' = << >>
    /\ audioContextCounter' = audioContextCounter + 1
    /\ audioContextRef' = audioContextCounter + 1
    /\ audioContexts' = audioContexts \cup { audioContextCounter + 1 }
    /\ recorders' = Append(recorders,
                           [state |-> "recording", stopPending |-> FALSE, nSlices |-> 0,
                            emitted |-> << >>])
    /\ recorderRef' = Len(recorders) + 1
    /\ startTimeRef' = now
    /\ timerCounter' = timerCounter + 1
    /\ timerRef' = timerCounter + 1
    /\ durationTimers' = durationTimers \cup { timerCounter + 1 }
    /\ isRecording' = TRUE
    /\ isPaused' = FALSE
    /\ duration' = 0
    /\ recordedBlob' = NullBlob
    /\ activeTime' = 0
    /\ phase' = (IF phase = "idle" THEN "recording" ELSE "other")
    /\ UNCHANGED now

startRecording ==
    /\ startRecordingBody
    /\ OnlyRecorder
    /\ lastOp' = [op |-> "startRecording"]

\* startRecording when new MediaRecorder(...) throws (no supported mime type): the
\* chunks were reset and createCombinedStream has opened its AudioContext; the
\* exception leaves everything else as it was.
startRecordingThrowsBody ==
    /\ audioContextCounter < MaxRecorders
    /\ chunksRef' = << >>
    /\ audioContextCounter' = audioContextCounter + 1
    /\ audioContextRef' = audioContextCounter + 1
    /\ audioContexts' = audioContexts \cup { audioContextCounter + 1 }
    /\ UNCHANGED << now, recorders, recorderRef, timerRef, durationTimers, timerCounter,
                    startTimeRef, isRecording, isPaused, duration, recordedBlob,
                    activeTime, phase >>

startRecordingThrows ==
    /\ startRecordingThrowsBody
    /\ OnlyRecorder
    /\ lastOp' = [op |-> "startRecordingThrows"]

\* stopRecording: stop the recorder unless inactive; clear the duration timer.
stopRecordingBody ==
    /\ IF recorderRef # 0 /\ recorders[recorderRef].state # "inactive"
       THEN recorders' = [recorders EXCEPT ![recorderRef].state = "inactive",
                                           ![recorderRef].stopPending = TRUE]
       ELSE UNCHANGED recorders
    /\ IF timerRef # 0
       THEN durationTimers' = durationTimers \ { timerRef } /\ timerRef' = 0
       ELSE UNCHANGED << durationTimers, timerRef >>
    /\ phase' = (IF RecorderState \in { "none", "inactive" } THEN phase
                 ELSE IF phase = "resumed" THEN "stopped"
                 ELSE "other")
    /\ UNCHANGED << now, recorderRef, chunksRef, timerCounter, startTimeRef,
                    audioContextRef, audioContexts, audioContextCounter,
                    isRecording, isPaused, duration, recordedBlob, activeTime >>

stopRecording ==
    /\ stopRecordingBody
    /\ OnlyRecorder
    /\ lastOp' = [op |-> "stopRecording"]

\* pauseRecording: pause the recorder if it is recording.
pauseRecording ==
    /\ IF recorderRef # 0 /\ recorders[recorderRef].state = "recording"
       THEN /\ recorders' = [recorders EXCEPT ![recorderRef].state = "paused"]
            /\ isPaused' = TRUE
            /\ phase' = (IF phase = "recording" THEN "paused" ELSE "other")
       ELSE UNCHANGED << recorders, isPaused, phase >>
    /\ UNCHANGED << now, recorderRef, chunksRef, timerRef, durationTimers, timerCounter,
                    startTimeRef, audioContextRef, audioContexts, audioContextCounter,
                    isRecording, duration, recordedBlob, activeTime >>
    /\ OnlyRecorder
    /\ lastOp' = [op |-> "pauseRecording", from |-> RecorderState]

\* resumeRecording: resume the recorder if it is paused.
resumeRecording ==
    /\ IF recorderRef # 0 /\ recorders[recorderRef].state = "paused"
       THEN /\ recorders' = [recorders EXCEPT ![recorderRef].state = "recording"]
            /\ isPaused' = FALSE
            /\ phase' = (IF phase = "paused" THEN "resumed" ELSE "other")
       ELSE UNCHANGED << recorders, isPaused, phase >>
    /\ UNCHANGED << now, recorderRef, chunksRef, timerRef, durationTimers, timerCounter,
                    startTimeRef, audioContextRef, audioContexts, audioContextCounter,
                    isRecording, duration, recordedBlob, activeTime >>
    /\ OnlyRecorder
    /\ lastOp' = [op |-> "resumeRecording", from |-> RecorderState]

clearRecordingBody ==
    /\ recordedBlob' = NullBlob
    /\ duration' = 0
    /\ chunksRef' = << >>
    /\ UNCHANGED << now, recorders, recorderRef, timerRef, durationTimers, timerCounter,
                    startTimeRef, audioContextRef, audioContexts, audioContextCounter,
                    isRecording, isPaused, activeTime, phase >>

clearRecording ==
    /\ clearRecordingBody
    /\ OnlyRecorder
    /\ lastOp' = [op |-> "clearRecording"]

\* recorder.ondataavailable for a timeslice of recorder r: a non-empty slice is pushed.
DataAvailable(r, size) ==
    /\ r \in 1..Len(recorders)
    /\ recorders[r].state = "recording"
    /\ recorders[r].nSlices < MaxSlices
    /\ recorders' = [recorders EXCEPT ![r].nSlices = @ + 1,
                                      ![r].emitted = IF size > 0
                                                     THEN Append(@, recorders[r].nSlices + 1)
                                                     ELSE @]
    /\ chunksRef' = (IF size > 0
                     THEN Append(chunksRef, << r, recorders[r].nSlices + 1 >>)
                     ELSE chunksRef)
    /\ UNCHANGED << now, recorderRef, timerRef, durationTimers, timerCounter,
                    startTimeRef, audioContextRef, audioContexts, audioContextCounter,
                    isRecording, isPaused, duration, recordedBlob, activeTime, phase >>
    /\ OnlyRecorder
    /\ lastOp' = [op |-> "dataavailable", rec |-> r, size |-> size]

\* What the duration shown and reported is computed as: (Date.now() - startTimeRef.current).
ElapsedSinceStart(t) == t - startTimeRef

\* The task MediaRecorder.stop() queues for recorder r: the last dataavailable
\* (its slice is pushed if non-empty), then recorder.onstop.
RecorderStopTask(r, size) ==
    /\ r \in 1..Len(recorders)
    /\ recorders[r].stopPending
    /\ LET chunks == IF size > 0
                     THEN Append(chunksRef, << r, recorders[r].nSlices + 1 >>)
                     ELSE chunksRef
       IN  /\ chunksRef' = chunks
           /\ recorders' = [recorders EXCEPT ![r].stopPending = FALSE,
                                             ![r].nSlices = @ + 1,
                                             ![r].emitted =
                                                 IF size > 0
                                                 THEN Append(@, recorders[r].nSlices + 1)
                                                 ELSE @]
           /\ recordedBlob' = [isNull |-> FALSE, chunks |-> chunks]
           /\ lastOp' = [op |-> "onstop", rec |-> r,
                         blob |-> chunks, finalDuration |-> ElapsedSinceStart(now)]
    /\ isRecording' = FALSE
    /\ isPaused' = FALSE
    /\ IF audioContextRef # 0
       THEN audioContexts' = audioContexts \ { audioContextRef } /\ audioContextRef' = 0
       ELSE UNCHANGED << audioContexts, audioContextRef >>
    /\ UNCHANGED << now, recorderRef, timerRef, durationTimers, timerCounter,
                    startTimeRef, audioContextCounter, duration, activeTime, phase >>
    /\ OnlyRecorder

\* One second passes.  The 100 ms duration timers that are set have run (the last
\* run at the end of the second).  The task queued by MediaRecorder.stop() runs
\* within milliseconds, so no second passes while one is queued.
Tick ==
    /\ now < MaxTime
    /\ \A r \in 1..Len(recorders) : ~recorders[r].stopPending
    /\ now' = now + 1
    /\ duration' = (IF durationTimers # {} THEN ElapsedSinceStart(now + 1) ELSE duration)
    /\ activeTime' = (IF RecorderState = "recording" THEN activeTime + 1 ELSE activeTime)
    /\ UNCHANGED << recorders, recorderRef, chunksRef, timerRef, durationTimers,
                    timerCounter, startTimeRef, audioContextRef, audioContexts,
                    audioContextCounter, isRecording, isPaused, recordedBlob, phase >>
    /\ OnlyRecorder
    /\ lastOp' = [op |-> "tick"]

NextRecorder ==
    \/ startRecording
    \/ startRecordingThrows
    \/ stopRecording
    \/ pauseRecording
    \/ resumeRecording
    \/ clearRecording
    \/ \E r \in 1..MaxRecorders, size \in { 0, 1 } : DataAvailable(r, size)
    \/ \E r \in 1..MaxRecorders, size \in { 0, 1 } : RecorderStopTask(r, size)
    \/ Tick

----------------------------------------------------------------------------
\* Transcription channel: the useTranscriptionWebSocket hook and the
\* TranscriptionWebSocket class

\* Bounds: the sockets one run creates under each implementation, and the session
\* ids the hook is given.
MaxHookSockets == 3

MaxClassSockets == 6

MaxSessions == 2

\* Bound on what the owner of the channel does in one run: props changes of the
\* hook, connect() / disconnect() calls on the class.
MaxOwnerCalls == 3

maxReconnectAttempts == 5

reconnectDelay == 1000

HookReconnectDelay == 2000

CLOSE_NORMAL == 1000

CLOSE_AUTH_REJECTED == 4001

\* Close codes a close event can carry: normal, abnormal closure (no close frame),
\* server error, auth rejected.
CloseCodes == { 1000, 1006, 1011, 4001 }

RECURSIVE Pow2(_)
Pow2(n) == IF n <= 0 THEN 1 ELSE 2 * Pow2(n - 1)

InitChannelIdle ==
    /\ enabled = FALSE
    /\ sessionId = 0
    /\ sockets = << >>
    /\ wsRef = 0
    /\ reconnectTimers = {}
    /\ reconnectTimeoutRef = 0
    /\ chanTimerCounter = 0
    /\ pingIntervals = {}
    /\ pingIntervalRef = 0
    /\ isConnected = FALSE
    /\ isConnecting = FALSE
    /\ reconnectAttempts = 0
    /\ classWanted = FALSE
    /\ chanMounted = TRUE
    /\ ownerCalls = 0

\* The hook after its first render with enabled = false / sessionId = null, or a
\* freshly constructed TranscriptionWebSocket.
InitChannel ==
    /\ InitChannelIdle
    /\ \/ chanVariant = "hook" /\ hasToken \in BOOLEAN
       \/ chanVariant = "class" /\ hasToken = TRUE

LiveSockets == { i \in 1..Len(sockets) : sockets[i].state \in { "connecting", "open" } }

\* Whether the channel is switched on: the hook is mounted with enabled and a
\* session id; the class has been asked to connect and not to disconnect since.
ChannelOn ==
    IF chanVariant = "hook" THEN chanMounted /\ enabled /\ sessionId # 0 ELSE classWanted

\* ws.close(1000, ...): a connecting or open socket starts closing.
CloseByClient(socks, i) ==
    IF i # 0 /\ socks[i].state \in { "connecting", "open" }
    THEN [socks EXCEPT ![i].state = "closing"]
    ELSE socks

\* The codes the close event of socket sk can carry: a socket that never opened
\* fails with 1006; a socket closed by the client with 1000 reports 1000, or 1006
\* when the connection is lost before the closing handshake ends.
CodesFor(sk) ==
    IF ~sk.everOpen THEN { 1006 }
    ELSE IF sk.state = "closing" THEN { 1000, 1006 }
    ELSE CloseCodes

\* A socket whose close event has fired: no further event comes from it and only
\* its readyState is read, so its other fields are dropped.
ClosedSocket == [state |-> "closed", session |-> 0, everOpen |-> FALSE]

NewSocket(s) == [state |-> "connecting", session |-> s, everOpen |-> FALSE]

\* ---- hook ----

\* The effect of the hook's [enabled, sessionId, connect, disconnect] dependencies:
\* the props change to (e, s); the previous effect's cleanup runs disconnect(), then
\* the effect runs connect() of the new render if e and s are set, else disconnect().
Hook_propsEffect(e, s) ==
    /\ chanVariant = "hook"
    /\ chanMounted
    /\ << e, s >> # << enabled, sessionId >>
    /\ enabled' = e
    /\ sessionId' = s
    /\ LET closed == CloseByClient(sockets, wsRef)
           doConnect == e /\ s # 0 /\ hasToken
       IN  /\ doConnect => Len(sockets) < MaxHookSockets
           /\ sockets' = (IF doConnect THEN Append(closed, NewSocket(s)) ELSE closed)
           /\ wsRef' = (IF doConnect THEN Len(sockets) + 1 ELSE 0)
    /\ reconnectTimers' = { t \in reconnectTimers : t.id # reconnectTimeoutRef }
    /\ reconnectTimeoutRef' = 0
    /\ pingIntervals' = { p \in pingIntervals : p.id # pingIntervalRef }
    /\ pingIntervalRef' = 0
    /\ isConnected' = FALSE
    /\ UNCHANGED << chanVariant, hasToken, chanTimerCounter, isConnecting,
                    reconnectAttempts, classWanted, chanMounted >>
    /\ ownerCalls < MaxOwnerCalls
    /\ ownerCalls' = ownerCalls + 1
    /\ OnlyChannel
    /\ lastOp' = [op |-> "propsEffect", on |-> (e /\ s # 0)]

\* Unmount: the effect cleanup runs disconnect().
Hook_unmount ==
    /\ chanVariant = "hook"
    /\ chanMounted
    /\ chanMounted' = FALSE
    /\ sockets' = CloseByClient(sockets, wsRef)
    /\ wsRef' = 0
    /\ reconnectTimers' = { t \in reconnectTimers : t.id # reconnectTimeoutRef }
    /\ reconnectTimeoutRef' = 0
    /\ pingIntervals' = { p \in pingIntervals : p.id # pingIntervalRef }
    /\ pingIntervalRef' = 0
    /\ isConnected' = FALSE
    /\ UNCHANGED << chanVariant, enabled, sessionId, hasToken, chanTimerCounter,
                    isConnecting, reconnectAttempts, classWanted, ownerCalls >>
    /\ OnlyChannel
    /\ lastOp' = [op |-> "unmount"]

\* ws.onopen of socket i: setIsConnected(true) and a new keepalive interval.
Hook_onopen(i) ==
    /\ chanVariant = "hook"
    /\ i \in 1..Len(sockets)
    /\ sockets[i].state = "connecting"
    /\ sockets' = [sockets EXCEPT ![i].state = "open", ![i].everOpen = TRUE]
    /\ isConnected' = TRUE
    /\ chanTimerCounter' = chanTimerCounter + 1
    /\ pingIntervalRef' = chanTimerCounter + 1
    /\ pingIntervals' = pingIntervals \cup { [id |-> chanTimerCounter + 1, socket |-> i] }
    /\ UNCHANGED << chanVariant, enabled, sessionId, hasToken, wsRef, reconnectTimers,
                    reconnectTimeoutRef, isConnecting, reconnectAttempts, classWanted,
                    chanMounted, ownerCalls >>
    /\ OnlyChannel
    /\ lastOp' = [op |-> "onopen", socket |-> i]

\* (mutant) a reconnect is attempted after every close but a normal one.
ShouldReconnect_IgnoreAuth(code) == code # CLOSE_NORMAL

\* Whether a close with this code leads to a reconnect attempt (both variants).
ShouldReconnect(code) == code # CLOSE_NORMAL /\ code # CLOSE_AUTH_REJECTED

\* ws.onclose of socket i with the given code.  enabled and sessionId in the
\* handler are those of the render whose connect() created the socket: both are
\* set, or connect() would have returned before creating it.
Hook_onclose(i, code) ==
    /\ chanVariant = "hook"
    /\ i \in 1..Len(sockets)
    /\ sockets[i].state \in { "connecting", "open", "closing" }
    /\ code \in CodesFor(sockets[i])
    /\ sockets' = [sockets EXCEPT ![i] = ClosedSocket]
    /\ isConnected' = FALSE
    /\ wsRef' = 0
    /\ pingIntervals' = { p \in pingIntervals : p.id # pingIntervalRef }
    /\ pingIntervalRef' = 0
    /\ IF ShouldReconnect(code)
       THEN /\ chanTimerCounter' = chanTimerCounter + 1
            /\ reconnectTimeoutRef' = chanTimerCounter + 1
            /\ reconnectTimers' = reconnectTimers \cup
                  { [id |-> chanTimerCounter + 1, session |-> sockets[i].session,
                     delay |-> HookReconnectDelay] }
       ELSE UNCHANGED << chanTimerCounter, reconnectTimeoutRef, reconnectTimers >>
    /\ UNCHANGED << chanVariant, enabled, sessionId, hasToken, isConnecting,
                    reconnectAttempts, classWanted, chanMounted, ownerCalls >>
    /\ OnlyChannel
    /\ lastOp' = [op |-> "onclose", socket |-> i, code |-> code, on |-> ChannelOn,
                   timersBefore |-> Cardinality(reconnectTimers), attemptsBefore |-> 0]

\* The reconnect timeout t fires: connect() of the render that created the closed
\* socket (its enabled and sessionId are set), which opens a new socket.
Hook_reconnectTimer(t) ==
    /\ chanVariant = "hook"
    /\ t \in reconnectTimers
    /\ reconnectTimers' = reconnectTimers \ { t }
    /\ IF hasToken
       THEN /\ Len(sockets) < MaxHookSockets
            /\ sockets' = Append(sockets, NewSocket(t.session))
            /\ wsRef' = Len(sockets) + 1
       ELSE UNCHANGED << sockets, wsRef >>
    /\ UNCHANGED << chanVariant, enabled, sessionId, hasToken, reconnectTimeoutRef,
                    chanTimerCounter, pingIntervals, pingIntervalRef, isConnected,
                    isConnecting, reconnectAttempts, classWanted, chanMounted, ownerCalls >>
    /\ OnlyChannel
    /\ lastOp' = [op |-> "reconnectTimer", liveBefore |-> Cardinality(LiveSockets),
                   openBefore |-> (\E i \in 1..Len(sockets) : sockets[i].state = "open"),
                   socketsBefore |-> Len(sockets), on |-> ChannelOn]

\* ---- class ----

\* The body of TranscriptionWebSocket.connect(): nothing when this.ws is open or a
\* connection is in progress, else a new socket.
ClassConnectBody ==
    IF (wsRef # 0 /\ sockets[wsRef].state = "open") \/ isConnecting
    THEN UNCHANGED << sockets, wsRef, isConnecting >>
    ELSE /\ Len(sockets) < MaxClassSockets
         /\ isConnecting' = TRUE
         /\ sockets' = Append(sockets, NewSocket(1))
         /\ wsRef' = Len(sockets) + 1

\* connect() called by the owner of the channel.
Class_connect ==
    /\ chanVariant = "class"
    /\ ClassConnectBody
    /\ classWanted' = TRUE
    /\ UNCHANGED << chanVariant, enabled, sessionId, hasToken, reconnectTimers,
                    reconnectTimeoutRef, chanTimerCounter, pingIntervals, pingIntervalRef,
                    isConnected, reconnectAttempts, chanMounted >>
    /\ ownerCalls < MaxOwnerCalls
    /\ ownerCalls' = ownerCalls + 1
    /\ OnlyChannel
    /\ lastOp' = [op |-> "connect", liveBefore |-> Cardinality(LiveSockets),
                   openBefore |-> (\E i \in 1..Len(sockets) : sockets[i].state = "open"),
                   socketsBefore |-> Len(sockets), on |-> ChannelOn]

\* disconnect(): stopPing(), close this.ws with 1000 and drop it.
Class_disconnect ==
    /\ chanVariant = "class"
    /\ pingIntervals' = { p \in pingIntervals : p.id # pingIntervalRef }
    /\ pingIntervalRef' = 0
    /\ sockets' = CloseByClient(sockets, wsRef)
    /\ wsRef' = 0
    /\ classWanted' = FALSE
    /\ UNCHANGED << chanVariant, enabled, sessionId, hasToken, reconnectTimers,
                    reconnectTimeoutRef, chanTimerCounter, isConnected, isConnecting,
                    reconnectAttempts, chanMounted >>
    /\ ownerCalls < MaxOwnerCalls
    /\ ownerCalls' = ownerCalls + 1
    /\ OnlyChannel
    /\ lastOp' = [op |-> "disconnect"]

\* (mutant) this.ws.onopen that leaves the attempt counter as it is.
Class_onopen_NoReset(i) ==
    /\ chanVariant = "class"
    /\ i \in 1..Len(sockets)
    /\ sockets[i].state = "connecting"
    /\ sockets' = [sockets EXCEPT ![i].state = "open", ![i].everOpen = TRUE]
    /\ isConnecting' = FALSE
    /\ UNCHANGED reconnectAttempts
    /\ chanTimerCounter' = chanTimerCounter + 1
    /\ pingIntervalRef' = chanTimerCounter + 1
    /\ pingIntervals' = pingIntervals \cup { [id |-> chanTimerCounter + 1, socket |-> 0] }
    /\ UNCHANGED << chanVariant, enabled, sessionId, hasToken, wsRef, reconnectTimers,
                    reconnectTimeoutRef, isConnected, classWanted, chanMounted, ownerCalls >>
    /\ OnlyChannel
    /\ lastOp' = [op |-> "onopen", socket |-> i]

\* this.ws.onopen of socket i: reset the attempt counter, startPing().
Class_onopen(i) ==
    /\ chanVariant = "class"
    /\ i \in 1..Len(sockets)
    /\ sockets[i].state = "connecting"
    /\ sockets' = [sockets EXCEPT ![i].state = "open", ![i].everOpen = TRUE]
    /\ isConnecting' = FALSE
    /\ reconnectAttempts' = 0
    /\ chanTimerCounter' = chanTimerCounter + 1
    /\ pingIntervalRef' = chanTimerCounter + 1
    /\ pingIntervals' = pingIntervals \cup { [id |-> chanTimerCounter + 1, socket |-> 0] }
    /\ UNCHANGED << chanVariant, enabled, sessionId, hasToken, wsRef, reconnectTimers,
                    reconnectTimeoutRef, isConnected, classWanted, chanMounted, ownerCalls >>
    /\ OnlyChannel
    /\ lastOp' = [op |-> "onopen", socket |-> i]

\* this.ws.onclose of socket i (after onerror when the connection failed):
\* stopPing(), then attemptReconnect() unless the code is 1000 or 4001.
Class_onclose(i, code) ==
    /\ chanVariant = "class"
    /\ i \in 1..Len(sockets)
    /\ sockets[i].state \in { "connecting", "open", "closing" }
    /\ code \in CodesFor(sockets[i])
    /\ sockets' = [sockets EXCEPT ![i] = ClosedSocket]
    /\ isConnecting' = FALSE
    /\ pingIntervals' = { p \in pingIntervals : p.id # pingIntervalRef }
    /\ pingIntervalRef' = 0
    /\ IF ShouldReconnect(code) /\ reconnectAttempts < maxReconnectAttempts
       THEN /\ reconnectAttempts' = reconnectAttempts + 1
            /\ chanTimerCounter' = chanTimerCounter + 1
            /\ reconnectTimers' = reconnectTimers \cup
                  { [id |-> chanTimerCounter + 1, session |-> 1,
                     delay |-> reconnectDelay * Pow2(reconnectAttempts)] }
       ELSE UNCHANGED << reconnectAttempts, chanTimerCounter, reconnectTimers >>
    /\ UNCHANGED << chanVariant, enabled, sessionId, hasToken, wsRef, reconnectTimeoutRef,
                    isConnected, classWanted, chanMounted, ownerCalls >>
    /\ OnlyChannel
    /\ lastOp' = [op |-> "onclose", socket |-> i, code |-> code, on |-> ChannelOn,
                   timersBefore |-> Cardinality(reconnectTimers), attemptsBefore |-> reconnectAttempts]

\* The timeout set by attemptReconnect() fires: this.connect().
Class_reconnectTimer(t) ==
    /\ chanVariant = "class"
    /\ t \in reconnectTimers
    /\ reconnectTimers' = reconnectTimers \ { t }
    /\ ClassConnectBody
    /\ UNCHANGED << chanVariant, enabled, sessionId, hasToken, reconnectTimeoutRef,
                    chanTimerCounter, pingIntervals, pingIntervalRef, isConnected,
                    reconnectAttempts, classWanted, chanMounted, ownerCalls >>
    /\ OnlyChannel
    /\ lastOp' = [op |-> "reconnectTimer", liveBefore |-> Cardinality(LiveSockets),
                   openBefore |-> (\E i \in 1..Len(sockets) : sockets[i].state = "open"),
                   socketsBefore |-> Len(sockets), on |-> ChannelOn]

NextChannel ==
    \/ \E e \in BOOLEAN, s \in 0..MaxSessions : Hook_propsEffect(e, s)
    \/ Hook_unmount
    \/ \E i \in 1..Len(sockets) : Hook_onopen(i)
    \/ \E i \in 1..Len(sockets), code \in CloseCodes : Hook_onclose(i, code)
    \/ \E t \in reconnectTimers : Hook_reconnectTimer(t)
    \/ Class_connect
    \/ Class_disconnect
    \/ \E i \in 1..Len(sockets) : Class_onopen(i)
    \/ \E i \in 1..Len(sockets), code \in CloseCodes : Class_onclose(i, code)
    \/ \E t \in reconnectTimers : Class_reconnectTimer(t)

----------------------------------------------------------------------------
\* Voice-command matcher (useVoiceCommands) over the transcript buffer

\* Bounds: the segments appended in one run, the seconds the clock runs, and how
\* often the owner re-renders or toggles the matcher.
MaxSegments == 3

MaxVoiceTime == 3

COOLDOWN_S == 2

CHECK_INTERVAL_S == 3

WINDOW_S == 5

\* The texts a transcript segment can carry, as sequences of words.
SegmentTexts ==
    { << "hey" >>,
      << "mike", "show", "that" >>,
      << "hey", "mike", "next" >>,
      << "mike", "clear", "mike", "skip" >>,
      << "mike", "skip" >> }

\* WAKE_WORD_PATTERNS in Object.entries order.  A regular expression is the set of
\* word sequences it matches anywhere in a text (\s* between words, an optional
\* [,.] after "mike"); an optional trailing group matches with or without it.
WAKE_WORD_PATTERNS ==
    << [command |-> "show",
        patterns |-> << { << "hey", "mike", "show", "that" >>, << "hey", "mike", "insert" >>,
                          << "hey", "mike", "add" >> },
                        { << "hey", "mike", "show" >> },
                        { << "mike", "show", "that" >> } >>],
       [command |-> "next",
        patterns |-> << { << "hey", "mike", "next" >> },
                        { << "mike", "next" >> } >>],
       [command |-> "clear",
        patterns |-> << { << "hey", "mike", "clear" >> },
                        { << "mike", "clear" >> },
                        { << "hey", "mike", "remove" >> } >>],
       [command |-> "dismiss",
        patterns |-> << { << "hey", "mike", "dismiss" >> },
                        { << "mike", "dismiss" >> },
                        { << "hey", "mike", "skip" >> },
                        { << "mike", "skip" >> } >>] >>

\* pattern.test(text): some alternative occurs as consecutive words of the text.
PatternTest(pattern, text) ==
    \E alt \in pattern, i \in 1..Len(text) :
        /\ i + Len(alt) - 1 <= Len(text)
        /\ SubSeq(text, i, i + Len(alt) - 1) = alt

\* The inner loop of detectCommand: does any pattern of the list match.
RECURSIVE AnyPatternMatches(_, _)
AnyPatternMatches(patterns, text) ==
    IF patterns = << >> THEN FALSE
    ELSE IF PatternTest(Head(patterns), text) THEN TRUE
         ELSE AnyPatternMatches(Tail(patterns), text)

\* The outer loop of detectCommand over the entries; "none" stands for null.
RECURSIVE DetectIn(_, _)
DetectIn(entries, text) ==
    IF entries = << >> THEN "none"
    ELSE IF AnyPatternMatches(Head(entries).patterns, text) THEN Head(entries).command
         ELSE DetectIn(Tail(entries), text)

\* (mutant) the entries are tried in the opposite order.
detectCommand_Reversed(text) ==
    DetectIn([i \in 1..Len(WAKE_WORD_PATTERNS) |->
                 WAKE_WORD_PATTERNS[Len(WAKE_WORD_PATTERNS) + 1 - i]], text)

detectCommand(text) == DetectIn(WAKE_WORD_PATTERNS, text)

\* segments.map(s => s.text).join(' ')
RECURSIVE JoinTexts(_)
JoinTexts(segments) ==
    IF segments = << >> THEN << >>
    ELSE Head(segments).text \o JoinTexts(Tail(segments))

\* Array.prototype.filter((s) => s.timestamp >= cutoff)
RECURSIVE FilterSince(_, _)
FilterSince(segments, cutoff) ==
    IF segments = << >> THEN << >>
    ELSE IF Head(segments).timestamp >= cutoff
         THEN << Head(segments) >> \o FilterSince(Tail(segments), cutoff)
         ELSE FilterSince(Tail(segments), cutoff)

\* getRecentTranscript(windowMs) at the time t
getRecentTranscript(segments, t, window) == JoinTexts(FilterSince(segments, t - window))

InitTranscript == transcript = << >>

\* sessionId of the AIProvider while no session was started
NoSession == [time |-> -1, rand |-> 0]

InitSession == aiSessionId = NoSession

InitVoice ==
    /\ voiceNow = 0
    /\ voiceEnabled = FALSE
    /\ lastProcessedIndex = 0
    /\ cooldownRef = FALSE
    /\ cooldownTimers = {}
    /\ checkIntervalDue = 0
    /\ invoked = << >>
    /\ matcherOnFromEmpty = FALSE

\* executeCommand(command): nothing during the cooldown, else start the cooldown
\* and invoke the callback of the command.
executeCommand(command) ==
    IF cooldownRef
    THEN UNCHANGED << cooldownRef, cooldownTimers, invoked >>
    ELSE /\ cooldownRef' = TRUE
         /\ cooldownTimers' = cooldownTimers \cup { voiceNow + COOLDOWN_S }
         /\ invoked' = Append(invoked, [command |-> command, at |-> voiceNow])

\* if (command) executeCommand(command), for the text of one scan
ScanText(text) ==
    IF detectCommand(text) # "none"
    THEN executeCommand(detectCommand(text))
    ELSE UNCHANGED << cooldownRef, cooldownTimers, invoked >>

\* The two effects of one render in which the hook sees the segments segs and
\* enabled = e: the incremental scan of the segments after lastProcessedIndex, then
\* the rolling-window interval is cleared and, when enabled, set again.
VoiceEffects(segs, e, source) ==
    /\ lastProcessedIndex' = IF ~e \/ Len(segs) > lastProcessedIndex
                             THEN Len(segs)
                             ELSE lastProcessedIndex
    /\ IF e /\ Len(segs) > lastProcessedIndex
       THEN LET text == JoinTexts(SubSeq(segs, lastProcessedIndex + 1, Len(segs)))
            IN  /\ ScanText(text)
                /\ lastOp' = [op |-> "scan", source |-> source.op, text |-> text,
                               cooldownBefore |-> cooldownRef, invokedBefore |-> Len(invoked)]
       ELSE /\ UNCHANGED << cooldownRef, cooldownTimers, invoked >>
            /\ lastOp' = source
    /\ checkIntervalDue' = IF e THEN voiceNow + CHECK_INTERVAL_S ELSE 0

\* addTranscriptSegment({text}) followed by the render it causes.
addTranscriptSegment(text) ==
    /\ Len(transcript) < MaxSegments
    /\ transcript' = Append(transcript, [text |-> text, timestamp |-> voiceNow])
    /\ VoiceEffects(transcript', voiceEnabled, [op |-> "incremental"])
    /\ UNCHANGED << voiceNow, voiceEnabled, matcherOnFromEmpty >>
    /\ OnlyVoice

\* The owner renders the hook with another value of enabled.
VoiceSetEnabled(e) ==
    /\ e # voiceEnabled
    /\ voiceEnabled' = e
    /\ matcherOnFromEmpty' = (e /\ transcript = << >>)
    /\ VoiceEffects(transcript, e, [op |-> "setEnabled"])
    /\ UNCHANGED << voiceNow, transcript >>
    /\ OnlyVoice

\* The owner re-renders with the same enabled: the callbacks object is a new one,
\* so executeCommand changes and both effects run again.
VoiceRerender ==
    /\ voiceEnabled
    /\ checkIntervalDue # voiceNow + CHECK_INTERVAL_S
    /\ VoiceEffects(transcript, voiceEnabled, [op |-> "rerender"])
    /\ UNCHANGED << voiceNow, voiceEnabled, transcript, matcherOnFromEmpty >>
    /\ OnlyVoice

\* The timeout set by executeCommand fires.
CooldownTimerFires(due) ==
    /\ due \in cooldownTimers
    /\ due <= voiceNow
    /\ cooldownTimers' = cooldownTimers \ { due }
    /\ cooldownRef' = FALSE
    /\ UNCHANGED << voiceNow, voiceEnabled, lastProcessedIndex, checkIntervalDue, invoked,
                    matcherOnFromEmpty, transcript >>
    /\ OnlyVoice
    /\ lastOp' = [op |-> "cooldownOver"]

\* checkWindow, run by the interval: scan the last 5 seconds of the transcript.
checkWindow ==
    /\ checkIntervalDue # 0
    /\ checkIntervalDue <= voiceNow
    /\ checkIntervalDue' = checkIntervalDue + CHECK_INTERVAL_S
    /\ LET text == getRecentTranscript(transcript, voiceNow, WINDOW_S)
       IN  /\ ScanText(text)
           /\ lastOp' = [op |-> "scan", source |-> "window", text |-> text,
                          cooldownBefore |-> cooldownRef, invokedBefore |-> Len(invoked)]
    /\ UNCHANGED << voiceNow, voiceEnabled, lastProcessedIndex, matcherOnFromEmpty, transcript >>
    /\ OnlyVoice

\* One second passes; timers that are due run first.
VoiceTick ==
    /\ voiceNow < MaxVoiceTime
    /\ \A due \in cooldownTimers : due > voiceNow
    /\ checkIntervalDue = 0 \/ checkIntervalDue > voiceNow
    /\ voiceNow' = voiceNow + 1
    /\ UNCHANGED << voiceEnabled, lastProcessedIndex, cooldownRef, cooldownTimers,
                    checkIntervalDue, invoked, matcherOnFromEmpty, transcript >>
    /\ OnlyVoice
    /\ lastOp' = [op |-> "tick"]

NextVoice ==
    \/ \E text \in SegmentTexts : addTranscriptSegment(text)
    \/ \E e \in BOOLEAN : VoiceSetEnabled(e)
    \/ VoiceRerender
    \/ \E due \in cooldownTimers : CooldownTimerFires(due)
    \/ checkWindow
    \/ VoiceTick

----------------------------------------------------------------------------
\* Compositor sources, name card and overlay slot; the insert handler of RecordPage

MaxInserts == 2

VideoStates == { "null", "notReady", "ready" }

NameCardTexts == { "", "Mike" }

NameCardTitles == { "", "Host" }

\* The urls handed to setOverlayImage directly.
OverlayUrls == { 1 }

\* useState({ x: 75, y: 75 }) and defaultPosition of handleInsertSuggestion
DefaultPosition == "{x:75,y:75}"

\* Where the user drags the overlay preview.
DraggedPositions == { "{x:20,y:30}" }

InitSources ==
    /\ webcamVideo = "null"
    /\ screenVideo = "null"
    /\ nameCardText = ""
    /\ nameCardTitle = ""

\* History: no setOverlayImage(url) call since the overlay was last cleared.
NoCall == [call |-> -1, url |-> 0, loaded |-> FALSE]

InitOverlay ==
    /\ overlayImage = 0
    /\ overlayOptions = [position |-> "center", scale |-> "0.5"]
    /\ overlayLoads = {}
    /\ fetches = {}
    /\ insertCounter = 0
    /\ hasOverlay = FALSE
    /\ overlayImageUrl = 0
    /\ isGeneratingImage = FALSE
    /\ overlayPosition = DefaultPosition
    /\ latestCall = NoCall

\* The webcam ("webcam") or screen ("screen") element gets its first frame
\* (readyState reaches 2).
VideoLoadedData(which) ==
    /\ IF which = "webcam"
       THEN /\ webcamVideo = "notReady"
            /\ webcamVideo' = "ready"
            /\ UNCHANGED screenVideo
       ELSE /\ screenVideo = "notReady"
            /\ screenVideo' = "ready"
            /\ UNCHANGED webcamVideo
    /\ UNCHANGED << nameCardText, nameCardTitle >>
    /\ OnlySources
    /\ lastOp' = [op |-> "loadeddata"]

\* setWebcamVideo(video): null, or an element that has or has not a frame yet.
setWebcamVideo(v) ==
    /\ v # webcamVideo
    /\ webcamVideo' = v
    /\ UNCHANGED << screenVideo, nameCardText, nameCardTitle >>
    /\ OnlySources
    /\ lastOp' = [op |-> "setWebcamVideo"]

setScreenVideo(v) ==
    /\ v # screenVideo
    /\ screenVideo' = v
    /\ UNCHANGED << webcamVideo, nameCardText, nameCardTitle >>
    /\ OnlySources
    /\ lastOp' = [op |-> "setScreenVideo"]

\* setOptions({nameCardText, nameCardTitle})
setOptionsNameCard(text, title) ==
    /\ << text, title >> # << nameCardText, nameCardTitle >>
    /\ nameCardText' = text
    /\ nameCardTitle' = title
    /\ UNCHANGED << webcamVideo, screenVideo >>
    /\ OnlySources
    /\ lastOp' = [op |-> "setOptions"]

\* The fields of a suggestion, by its id: imageUrl (0 when it has none), searchQuery,
\* and whether it carries overlayPosition or overlayScale.
imageUrlOf(id) == IF id % 2 = 1 THEN id ELSE 0

hasSearchQuery(id) == id % 4 = 2

hasOverlayHints(id) == id % 4 = 1

\* data.image_url of the /api/generate-image response for the suggestion
generatedUrlOf(id) == 100 + id

\* setOverlayOptions({position: defaultPosition, scale: ... || 0.4, opacity: 1})
InsertedOverlayOptions == [position |-> DefaultPosition, scale |-> "0.4"]

\* setOverlayImage(imageUrl) called on the compositor: null clears the slot at once,
\* a url starts an Image load (one such load of a url at a time).
\* History: the loads in flight when the overlay is cleared are marked, so that
\* their completion can be told from that of a load begun after the clear.
ClearedSince(loads) == { [c EXCEPT !.clearedSince = TRUE] : c \in loads }

setOverlayImage(url) ==
    /\ IF url = 0
       THEN /\ overlayImage' = 0
            /\ overlayLoads' = ClearedSince(overlayLoads)
            /\ latestCall' = NoCall
       ELSE /\ \A c \in overlayLoads : ~(c.owner = "direct" /\ c.url = url)
            /\ latestCall' = [call |-> 0, url |-> url, loaded |-> FALSE]
            /\ overlayLoads' = overlayLoads \cup
                  { [call |-> 0, url |-> url, owner |-> "direct", suggestion |-> 0,
                     clearedSince |-> FALSE] }
            /\ UNCHANGED overlayImage
    /\ UNCHANGED << overlayOptions, fetches, insertCounter, hasOverlay, overlayImageUrl,
                    isGeneratingImage, overlayPosition >>
    /\ UNCHANGED suggestVars
    /\ OnlyOverlay
    /\ lastOp' = [op |-> "setOverlayImage", url |-> url]

\* clearOverlay()
clearOverlay ==
    /\ overlayImage' = 0
    /\ overlayLoads' = ClearedSince(overlayLoads)
    /\ latestCall' = NoCall
    /\ UNCHANGED << overlayOptions, fetches, insertCounter, hasOverlay,
                    overlayImageUrl, isGeneratingImage, overlayPosition >>
    /\ UNCHANGED suggestVars
    /\ OnlyOverlay
    /\ lastOp' = [op |-> "clearOverlay"]

\* handleInsertSuggestion up to its first await.
handleInsertSuggestion ==
    LET suggestion == getCurrentSuggestion
    IN  /\ insertCounter < MaxInserts
        /\ IF suggestion = 0 \/ isGeneratingImage
           THEN UNCHANGED overlayVars
           ELSE /\ overlayPosition' = DefaultPosition
                /\ overlayOptions' = IF hasOverlayHints(suggestion)
                                     THEN InsertedOverlayOptions
                                     ELSE overlayOptions
                /\ IF imageUrlOf(suggestion) # 0
                   THEN /\ insertCounter' = insertCounter + 1
                        /\ overlayLoads' = overlayLoads \cup
                              { [call |-> insertCounter + 1, url |-> imageUrlOf(suggestion),
                                 owner |-> "imageUrl", suggestion |-> suggestion,
                                 clearedSince |-> FALSE] }
                        /\ latestCall' = [call |-> insertCounter + 1,
                                          url |-> imageUrlOf(suggestion), loaded |-> FALSE]
                        /\ UNCHANGED << fetches, isGeneratingImage >>
                   ELSE IF hasSearchQuery(suggestion)
                   THEN /\ insertCounter' = insertCounter + 1
                        /\ isGeneratingImage' = TRUE
                        /\ fetches' = fetches \cup
                              { [call |-> insertCounter + 1, suggestion |-> suggestion,
                                 changedAtCall |->
                                    ( \/ overlayPosition' # overlayPosition
                                      \/ overlayOptions' # overlayOptions )] }
                        /\ UNCHANGED << overlayLoads, latestCall >>
                   ELSE UNCHANGED << insertCounter, overlayLoads, fetches, isGeneratingImage,
                                     latestCall >>
                /\ UNCHANGED << overlayImage, hasOverlay, overlayImageUrl >>
        /\ UNCHANGED suggestVars
        /\ OnlyOverlay
        /\ lastOp' = [op |-> "handleInsertSuggestion", suggestion |-> suggestion]

\* The /api/generate-image request of the searchQuery branch settles: with an
\* image_url ("url"), without one or not ok ("none"), or the fetch throws ("throws").
FetchSettles(f, outcome) ==
    /\ f \in fetches
    /\ fetches' = fetches \ { f }
    /\ IF outcome = "url"
       THEN /\ overlayOptions' = InsertedOverlayOptions
            /\ overlayLoads' = overlayLoads \cup
                  { [call |-> f.call, url |-> generatedUrlOf(f.suggestion),
                     owner |-> "searchQuery", suggestion |-> f.suggestion,
                     clearedSince |-> FALSE] }
            /\ latestCall' = [call |-> f.call, url |-> generatedUrlOf(f.suggestion),
                              loaded |-> FALSE]
            /\ UNCHANGED isGeneratingImage
       ELSE /\ isGeneratingImage' = FALSE
            /\ UNCHANGED << overlayOptions, overlayLoads, latestCall >>
    /\ UNCHANGED << overlayImage, insertCounter, hasOverlay, overlayImageUrl,
                    overlayPosition >>
    /\ UNCHANGED suggestVars
    /\ OnlyOverlay
    /\ lastOp' = [op |-> "fetchSettled", outcome |-> outcome,
                   changedAtCall |-> f.changedAtCall,
                   overlayBefore |-> overlayImage, optionsBefore |-> overlayOptions,
                   positionBefore |-> overlayPosition, hasOverlayBefore |-> hasOverlay,
                   overlayImageUrlBefore |-> overlayImageUrl,
                   suggestionsBefore |-> suggestions,
                   indexBefore |-> currentSuggestionIndex]

\* img.onload of a load: the image becomes the overlay and the promise resolves; a
\* handler awaiting it then records the url, marks the overlay active and accepts
\* the suggestion (and, in the searchQuery branch, ends the generating state).
OverlayImageLoads(c) ==
    /\ c \in overlayLoads
    /\ overlayLoads' = overlayLoads \ { c }
    /\ overlayImage' = c.url
    /\ latestCall' = (IF << c.call, c.url >> = << latestCall.call, latestCall.url >>
                      THEN [latestCall EXCEPT !.loaded = TRUE]
                      ELSE latestCall)
    /\ IF c.owner = "direct"
       THEN UNCHANGED << overlayImageUrl, hasOverlay, suggestVars, isGeneratingImage >>
       ELSE /\ overlayImageUrl' = c.url
            /\ hasOverlay' = TRUE
            /\ suggestions' = FilterOut(suggestions, c.suggestion)
            /\ currentSuggestionIndex' = AcceptIndex(currentSuggestionIndex)
            /\ nav' = [nexts |-> 0, from |-> currentSuggestionIndex', afterAdds |-> FALSE]
            /\ UNCHANGED << lenSeen, suggestionIdCounter >>
            /\ isGeneratingImage' = IF c.owner = "searchQuery" THEN FALSE
                                    ELSE isGeneratingImage
    /\ UNCHANGED << overlayOptions, fetches, insertCounter, overlayPosition >>
    /\ OnlyOverlay
    /\ lastOp' = [op |-> "overlayLoaded", promise |-> "resolved", owner |-> c.owner,
                   suggestion |-> c.suggestion, clearedSince |-> c.clearedSince]

\* (mutant) a failed load empties the overlay slot.
OverlayImageFails_Clears(c) ==
    /\ c \in overlayLoads
    /\ overlayLoads' = overlayLoads \ { c }
    /\ overlayImage' = 0
    /\ isGeneratingImage' = IF c.owner = "searchQuery" THEN FALSE ELSE isGeneratingImage
    /\ UNCHANGED << overlayOptions, fetches, insertCounter, hasOverlay, overlayImageUrl,
                    overlayPosition, latestCall >>
    /\ UNCHANGED suggestVars
    /\ OnlyOverlay
    /\ lastOp' = [op |-> "overlayLoadFailed", promise |-> "rejected", owner |-> c.owner,
                   suggestion |-> c.suggestion, overlayBefore |-> overlayImage,
                   hasOverlayBefore |-> hasOverlay, overlayImageUrlBefore |-> overlayImageUrl,
                   suggestionsBefore |-> suggestions,
                   indexBefore |-> currentSuggestionIndex]

\* img.onerror of a load: the promise rejects; a handler awaiting it logs the error
\* (and, in the searchQuery branch, ends the generating state).
OverlayImageFails(c) ==
    /\ c \in overlayLoads
    /\ overlayLoads' = overlayLoads \ { c }
    /\ isGeneratingImage' = IF c.owner = "searchQuery" THEN FALSE ELSE isGeneratingImage
    /\ UNCHANGED << overlayImage, overlayOptions, fetches, insertCounter, hasOverlay,
                    overlayImageUrl, overlayPosition, latestCall >>
    /\ UNCHANGED suggestVars
    /\ OnlyOverlay
    /\ lastOp' = [op |-> "overlayLoadFailed", promise |-> "rejected", owner |-> c.owner,
                   suggestion |-> c.suggestion, overlayBefore |-> overlayImage,
                   hasOverlayBefore |-> hasOverlay, overlayImageUrlBefore |-> overlayImageUrl,
                   suggestionsBefore |-> suggestions,
                   indexBefore |-> currentSuggestionIndex]

\* handleClearOverlay: clearOverlay(); setHasOverlay(false); setOverlayImageUrl(null)
handleClearOverlay ==
    /\ overlayImage' = 0
    /\ overlayLoads' = ClearedSince(overlayLoads)
    /\ latestCall' = NoCall
    /\ hasOverlay' = FALSE
    /\ overlayImageUrl' = 0
    /\ UNCHANGED << overlayOptions, fetches, insertCounter, isGeneratingImage,
                    overlayPosition >>
    /\ UNCHANGED suggestVars
    /\ OnlyOverlay
    /\ lastOp' = [op |-> "handleClearOverlay"]

\* handleOverlayPositionChange(position): the user drags the overlay preview, which
\* is shown while hasOverlay and overlayImageUrl are set.
handleOverlayPositionChange(position) ==
    /\ hasOverlay /\ overlayImageUrl # 0
    /\ position # overlayPosition
    /\ overlayPosition' = position
    /\ overlayOptions' = [overlayOptions EXCEPT !.position = position]
    /\ UNCHANGED << overlayImage, overlayLoads, fetches, insertCounter, hasOverlay,
                    overlayImageUrl, isGeneratingImage, latestCall >>
    /\ UNCHANGED suggestVars
    /\ OnlyOverlay
    /\ lastOp' = [op |-> "handleOverlayPositionChange"]

\* The compositor with its sources, name card and overlay slot.
NextFrame ==
    \/ Compositor_start
    \/ \E id \in rafPending : FrameCallback(id)
    \/ \E l \in Layouts : setLayout(l)
    \/ \E v \in VideoStates : setWebcamVideo(v)
    \/ \E v \in VideoStates : setScreenVideo(v)
    \/ \E which \in { "webcam", "screen" } : VideoLoadedData(which)
    \/ \E text \in NameCardTexts, title \in NameCardTitles : setOptionsNameCard(text, title)
    \/ \E url \in OverlayUrls \cup { 0 } : setOverlayImage(url)
    \/ \E c \in overlayLoads : OverlayImageLoads(c)
    \/ \E c \in overlayLoads : OverlayImageFails(c)
    \/ clearOverlay

\* The insert handler of RecordPage on the suggestion queue and the overlay slot.
NextInsert ==
    \/ addSuggestion
    \/ nextSuggestion
    \/ RenderAIProvider
    \/ handleInsertSuggestion
    \/ \E f \in fetches, outcome \in { "url", "none", "throws" } : FetchSettles(f, outcome)
    \/ \E c \in overlayLoads : OverlayImageLoads(c)
    \/ \E c \in overlayLoads : OverlayImageFails(c)
    \/ handleClearOverlay
    \/ \E position \in DraggedPositions \cup { DefaultPosition } :
          handleOverlayPositionChange(position)

----------------------------------------------------------------------------
\* Frame geometry: getPIPPosition and the crop of drawVideoFullFrame

CANVAS_WIDTH == 1920

CANVAS_HEIGHT == 1080

PIP_MARGIN == 32

MaxVideoSide == 5

PipVariants == { "circle", "legacy" }

\* PIP_SIZES: diameters in compositor.ts, width and height in the legacy Compositor.
PIP_SIZES(variant) ==
    IF variant = "circle"
    THEN [ small  |-> [width |-> 200, height |-> 200],
           medium |-> [width |-> 280, height |-> 280],
           large  |-> [width |-> 360, height |-> 360] ]
    ELSE [ small  |-> [width |-> 320, height |-> 180],
           medium |-> [width |-> 480, height |-> 270],
           large  |-> [width |-> 640, height |-> 360] ]

\* (mutant) getPIPPosition that forgets the margin on the far edges.
getPIPPosition_NoFarMargin(position, width, height) ==
    CASE position = "top-left"    -> [x |-> PIP_MARGIN, y |-> PIP_MARGIN]
      [] position = "top-right"   -> [x |-> CANVAS_WIDTH - width, y |-> PIP_MARGIN]
      [] position = "bottom-left" -> [x |-> PIP_MARGIN, y |-> CANVAS_HEIGHT - height]
      [] OTHER -> [x |-> CANVAS_WIDTH - width, y |-> CANVAS_HEIGHT - height]

\* getPIPPosition(width, height) for this.options.pipPosition = position
getPIPPosition(position, width, height) ==
    CASE position = "top-left"    -> [x |-> PIP_MARGIN, y |-> PIP_MARGIN]
      [] position = "top-right"   -> [x |-> CANVAS_WIDTH - width - PIP_MARGIN, y |-> PIP_MARGIN]
      [] position = "bottom-left" -> [x |-> PIP_MARGIN, y |-> CANVAS_HEIGHT - height - PIP_MARGIN]
      [] OTHER -> [x |-> CANVAS_WIDTH - width - PIP_MARGIN,
                   y |-> CANVAS_HEIGHT - height - PIP_MARGIN]

RECURSIVE Gcd(_, _)
Gcd(a, b) == IF b = 0 THEN a ELSE Gcd(b, a % b)

\* canvasAspect = CANVAS_WIDTH / CANVAS_HEIGHT as a fraction in lowest terms
AspectNum == CANVAS_WIDTH \div Gcd(CANVAS_WIDTH, CANVAS_HEIGHT)

AspectDen == CANVAS_HEIGHT \div Gcd(CANVAS_WIDTH, CANVAS_HEIGHT)

\* Crop coordinates are kept in units of 1 / CropUnit pixel, in which every
\* quotient of the crop computation is a whole number.
CropUnit == 2 * AspectNum * AspectDen

\* (mutant) the crop with the two branches exchanged.
CropRect_Letterbox(W, H) ==
    IF ~(W * AspectDen > H * AspectNum)
    THEN LET sw == (H * AspectNum * CropUnit) \div AspectDen
         IN  [sx |-> (W * CropUnit - sw) \div 2, sy |-> 0, sw |-> sw, sh |-> H * CropUnit]
    ELSE LET sh == (W * AspectDen * CropUnit) \div AspectNum
         IN  [sx |-> 0, sy |-> (H * CropUnit - sh) \div 2, sw |-> W * CropUnit, sh |-> sh]

\* The source rectangle of drawVideoFullFrame for a W x H video:
\* videoAspect > canvasAspect crops the width to H * canvasAspect, else the height
\* to W / canvasAspect, centred.
CropRect(W, H) ==
    IF W * AspectDen > H * AspectNum
    THEN LET sw == (H * AspectNum * CropUnit) \div AspectDen
         IN  [sx |-> (W * CropUnit - sw) \div 2, sy |-> 0, sw |-> sw, sh |-> H * CropUnit]
    ELSE LET sh == (W * AspectDen * CropUnit) \div AspectNum
         IN  [sx |-> 0, sy |-> (H * CropUnit - sh) \div 2, sw |-> W * CropUnit, sh |-> sh]

\* The video resolutions tried: every small one and some that cameras and screens
\* deliver.
VideoSizes ==
    { [w |-> w, h |-> h] : w \in 1..MaxVideoSide, h \in 1..MaxVideoSide }
    \cup { [w |-> 1920, h |-> 1080], [w |-> 1280, h |-> 720], [w |-> 640, h |-> 480],
           [w |-> 1080, h |-> 1920], [w |-> 1366, h |-> 768], [w |-> 1920, h |-> 800] }

NoRect == [set |-> FALSE]

InitGeometry ==
    /\ pipVariant = "circle"
    /\ videoSize = [w |-> 1920, h |-> 1080]
    /\ lastPip = NoRect
    /\ lastCrop = NoRect

\* The geometry runs start with either Compositor and any of the resolutions.
InitGeometryInputs ==
    /\ pipVariant \in PipVariants
    /\ videoSize \in VideoSizes
    /\ lastPip = NoRect
    /\ lastCrop = NoRect

\* drawWebcamPIP computes the inset rectangle from the size table and getPIPPosition.
PlacePip ==
    /\ LET size == PIP_SIZES(pipVariant)[pipSize]
           pos == getPIPPosition(pipPosition, size.width, size.height)
       IN  lastPip' = [set |-> TRUE, variant |-> pipVariant, position |-> pipPosition,
                       size |-> pipSize, x |-> pos.x, y |-> pos.y,
                       width |-> size.width, height |-> size.height]
    /\ UNCHANGED << pipVariant, videoSize, lastCrop >>
    /\ UNCHANGED << suggestVars, compositorVars, devicesVars, recorderVars, channelVars,
                    transcriptVars, sessionVars, voiceVars, sourceVars, overlayVars, wireVars, inboundVars,
                    pageVars >>
    /\ lastOp' = [op |-> "drawWebcamPIP"]

\* drawVideoFullFrame computes the crop of the source element.
CropFullFrame ==
    /\ LET crop == CropRect(videoSize.w, videoSize.h)
       IN  lastCrop' = [set |-> TRUE, w |-> videoSize.w, h |-> videoSize.h,
                        sx |-> crop.sx, sy |-> crop.sy, sw |-> crop.sw, sh |-> crop.sh]
    /\ UNCHANGED << pipVariant, videoSize, lastPip >>
    /\ UNCHANGED << suggestVars, compositorVars, devicesVars, recorderVars, channelVars,
                    transcriptVars, sessionVars, voiceVars, sourceVars, overlayVars, wireVars, inboundVars,
                    pageVars >>
    /\ lastOp' = [op |-> "drawVideoFullFrame"]

NextGeometry ==
    \/ \E pos \in PIPPositions, size \in PIPSizes : setOptions(pos, size)
    \/ PlacePip
    \/ CropFullFrame

----------------------------------------------------------------------------
\* Messages of the transcription channel (useTranscriptionWebSocket): what the
\* hook sends and what it does with the events of its sockets

\* Bound: the calls of the send functions in one run.
MaxWireCalls == 2

\* The chunks the owner passes to sendAudioChunk: << recorder, slice >>.
WireChunks == { << 1, 1 >> }

InitWire ==
    /\ audioChunkCalls = << >>
    /\ readers = {}
    /\ wireCalls = 0

\* Whether wsRef.current is set and its readyState is OPEN.
RefOpen == wsRef # 0 /\ sockets[wsRef].state = "open"

\* WebSocket.send() by readyState: it throws InvalidStateError on a connecting
\* socket, transmits on an open one, and discards the data on a closing or
\* closed one.
SocketSend(state) ==
    IF state = "connecting" THEN "throws"
    ELSE IF state = "open" THEN "sent"
    ELSE "dropped"

\* sendAudioChunk(chunk): return unless wsRef.current is open, else start the
\* FileReader that encodes the chunk.
sendAudioChunk(chunk) ==
    /\ chanVariant = "hook"
    /\ wireCalls < MaxWireCalls
    /\ wireCalls' = wireCalls + 1
    /\ audioChunkCalls' = Append(audioChunkCalls, chunk)
    /\ readers' = (IF RefOpen
                   THEN readers \cup { [id |-> wireCalls + 1, chunk |-> chunk,
                                        socket |-> wsRef] }
                   ELSE readers)
    /\ UNCHANGED << suggestVars, compositorVars, devicesVars, recorderVars, channelVars,
                    transcriptVars, sessionVars, voiceVars, sourceVars, overlayVars,
                    geometryVars, inboundVars, pageVars >>
    /\ lastOp' = [op |-> "sendAudioChunk", open |-> RefOpen, outcome |-> "none"]

\* reader.onloadend of the encoding rd: wsRef.current?.send(...) on whatever socket
\* the ref holds by now.
ReaderLoadEnd(rd) ==
    /\ rd \in readers
    /\ readers' = readers \ { rd }
    /\ UNCHANGED << audioChunkCalls, wireCalls >>
    /\ UNCHANGED << suggestVars, compositorVars, devicesVars, recorderVars, channelVars,
                    transcriptVars, sessionVars, voiceVars, sourceVars, overlayVars,
                    geometryVars, inboundVars, pageVars >>
    /\ lastOp' = [op |-> "readerLoadEnd", open |-> RefOpen,
                   outcome |-> IF wsRef = 0 THEN "none"
                               ELSE SocketSend(sockets[wsRef].state),
                   id |-> rd.id, callSocket |-> rd.socket, target |-> wsRef]

\* requestSuggestion(transcript, context) and detectMoments(transcriptWindow):
\* return unless wsRef.current is open, else send at once.
SendNow(name) ==
    /\ chanVariant = "hook"
    /\ wireCalls < MaxWireCalls
    /\ wireCalls' = wireCalls + 1
    /\ UNCHANGED << audioChunkCalls, readers >>
    /\ UNCHANGED << suggestVars, compositorVars, devicesVars, recorderVars, channelVars,
                    transcriptVars, sessionVars, voiceVars, sourceVars, overlayVars,
                    geometryVars, inboundVars, pageVars >>
    /\ lastOp' = [op |-> name, open |-> RefOpen,
                   outcome |-> IF RefOpen THEN SocketSend(sockets[wsRef].state)
                               ELSE "none"]

requestSuggestion == SendNow("requestSuggestion")

detectMoments == SendNow("detectMoments")

\* The hook's channel together with the calls of its send functions.
NextOutbound ==
    \/ \E e \in BOOLEAN, s \in 0..MaxSessions : Hook_propsEffect(e, s)
    \/ Hook_unmount
    \/ \E i \in 1..Len(sockets) : Hook_onopen(i)
    \/ \E i \in 1..Len(sockets), code \in CloseCodes : Hook_onclose(i, code)
    \/ \E t \in reconnectTimers : Hook_reconnectTimer(t)
    \/ \E chunk \in WireChunks : sendAudioChunk(chunk)
    \/ \E rd \in readers : ReaderLoadEnd(rd)
    \/ requestSuggestion
    \/ detectMoments

\* Bounds: the moments one visual_moments event lists, and the message events of
\* one run.
MaxMoments == 2

MaxInbound == 3

\* The texts a transcription event can carry ('' is the empty sequence).
InboundTexts == { << >>, << "hey" >> }

\* The event types of the protocol, and one the handler does not know.
InboundTypes ==
    { "connected", "pong", "transcription", "suggestion", "visual_moments",
      "no_suggestion", "rate_limited", "error", "rate_limits", "unknown" }

\* The payloads of message events.  json is what JSON.parse makes of event.data:
\* it throws ("invalid"), returns null, or returns an object.  A suggestion event
\* carries its suggestion object (SuggestionMessage), a visual_moments event its
\* list, a transcription event its text.
InboundMessages ==
    { [json |-> j, type |-> "none", text |-> << >>, suggestion |-> FALSE, moments |-> 0] :
          j \in { "invalid", "null" } }
    \cup { [json |-> "object", type |-> t, text |-> << >>, suggestion |-> FALSE,
            moments |-> 0] :
              t \in InboundTypes \ { "transcription", "suggestion", "visual_moments" } }
    \cup { [json |-> "object", type |-> "transcription", text |-> x,
            suggestion |-> FALSE, moments |-> 0] : x \in InboundTexts }
    \cup { [json |-> "object", type |-> "suggestion", text |-> << >>,
            suggestion |-> TRUE, moments |-> 0] }
    \cup { [json |-> "object", type |-> "visual_moments", text |-> << >>,
            suggestion |-> FALSE, moments |-> k] : k \in 0..MaxMoments }

InitInbound == suggestionOrigin = {} /\ inboundCount = 0

\* (mutant) an error event is shown as a transcript segment.
MessageEffect_ErrorAsSegment(data) ==
    IF data.json = "object" /\ data.type \in { "transcription", "error" }
    THEN [segments |-> 1, suggestions |-> 0]
    ELSE [segments |-> 0, suggestions |-> 0]

\* The body of ws.onmessage: how many transcript segments and suggestions the
\* payload adds.  A payload that does not parse, or parses to null (reading
\* data.type throws), ends in the catch clause.
MessageEffect(data) ==
    IF data.json # "object" THEN [segments |-> 0, suggestions |-> 0]
    ELSE IF data.type = "transcription"
         THEN [segments |-> IF data.text # << >> THEN 1 ELSE 0, suggestions |-> 0]
    ELSE IF data.type = "suggestion"
         THEN [segments |-> 0, suggestions |-> IF data.suggestion THEN 1 ELSE 0]
    ELSE IF data.type = "visual_moments"
         THEN [segments |-> 0, suggestions |-> data.moments]
    ELSE [segments |-> 0, suggestions |-> 0]

\* (mutant) the moments of an event are added last to first.
MomentOrder_Reversed(n) == [j \in 1..n |-> n + 1 - j]

\* for (const moment of data.moments): the j-th suggestion added is made from the
\* j-th item of the list.
MomentOrder(n) == [j \in 1..n |-> j]

\* What the connection looks like to the hook and its owner.
ConnectionState ==
    [sockets |-> sockets, wsRef |-> wsRef, isConnected |-> isConnected,
     reconnectTimers |-> reconnectTimers, pingIntervals |-> pingIntervals]

\* ws.onmessage of socket i with the payload data.
Hook_onmessage(i, data) ==
    /\ chanVariant = "hook"
    /\ i \in 1..Len(sockets)
    /\ sockets[i].state \in { "open", "closing" }
    /\ inboundCount < MaxInbound
    /\ inboundCount' = inboundCount + 1
    /\ LET eff == MessageEffect(data)
           n == eff.suggestions
           order == MomentOrder(n)
           rec == [op |-> "onmessage", data |-> data,
                   transcriptBefore |-> transcript, suggestionsBefore |-> suggestions,
                   connectionBefore |-> ConnectionState]
       IN  /\ Len(transcript) + eff.segments <= MaxSegments
           /\ suggestionIdCounter + n <= MaxSuggestionIds
           /\ suggestionIdCounter' = suggestionIdCounter + n
           /\ suggestions' = suggestions \o [j \in 1..n |-> suggestionIdCounter + j]
           /\ suggestionOrigin' = suggestionOrigin \cup
                  { [id |-> suggestionIdCounter + j, item |-> order[j]] : j \in 1..n }
           /\ nav' = (IF n > 0
                      THEN [nexts |-> 0, from |-> currentSuggestionIndex,
                            afterAdds |-> (nav.afterAdds /\ nav.nexts = 0)]
                      ELSE nav)
           /\ IF eff.segments > 0
              THEN /\ transcript' = Append(transcript,
                                           [text |-> data.text, timestamp |-> voiceNow])
                   /\ VoiceEffects(transcript', voiceEnabled, rec)
                   /\ UNCHANGED << voiceNow, voiceEnabled, matcherOnFromEmpty >>
              ELSE /\ UNCHANGED << transcriptVars, voiceVars >>
                   /\ lastOp' = rec
    /\ UNCHANGED << currentSuggestionIndex, lenSeen >>
    /\ UNCHANGED << compositorVars, devicesVars, recorderVars, channelVars, sessionVars,
                    sourceVars, overlayVars, geometryVars, wireVars, pageVars >>

\* ws.onerror of socket i: the event is logged.
Hook_onerror(i) ==
    /\ chanVariant = "hook"
    /\ i \in 1..Len(sockets)
    /\ sockets[i].state \in { "connecting", "open", "closing" }
    /\ UNCHANGED << suggestVars, compositorVars, devicesVars, recorderVars, channelVars,
                    transcriptVars, sessionVars, voiceVars, sourceVars, overlayVars,
                    restVars >>
    /\ lastOp' = [op |-> "onerror", socket |-> i, connectionBefore |-> ConnectionState]

\* One session of the hook (the owner enables it once, with session 1) together
\* with the events of its sockets.
NextInbound ==
    \/ Hook_propsEffect(TRUE, 1)
    \/ Hook_unmount
    \/ \E i \in 1..Len(sockets) : Hook_onopen(i)
    \/ \E i \in 1..Len(sockets), code \in CloseCodes : Hook_onclose(i, code)
    \/ \E t \in reconnectTimers : Hook_reconnectTimer(t)
    \/ \E i \in 1..Len(sockets), data \in InboundMessages : Hook_onmessage(i, data)
    \/ \E i \in 1..Len(sockets) : Hook_onerror(i)

\* The keepalive interval p fires.  The hook's callback sends a ping on the socket
\* it was created for if that socket is open; the class's goes through send(),
\* which sends on this.ws if that is open.
PingFires(p) ==
    /\ p \in pingIntervals
    /\ LET target == IF chanVariant = "hook" THEN p.socket ELSE wsRef
       IN  lastOp' = [op |-> "ping", timer |-> p.id, socket |-> target,
                      sent |-> (target # 0 /\ sockets[target].state = "open"),
                      timers |-> Cardinality(pingIntervals)]
    /\ UNCHANGED << suggestVars, compositorVars, devicesVars, recorderVars, channelVars,
                    transcriptVars, sessionVars, voiceVars, sourceVars, overlayVars,
                    restVars >>

\* The channel (either implementation) together with its keepalive timers.
NextKeepalive ==
    \/ NextChannel
    \/ \E p \in pingIntervals : PingFires(p)

----------------------------------------------------------------------------
\* Sessions of the AIProvider (startSession, endSession)

\* The values Math.random().toString(36) stands for in a session id.
SessionRandoms == { 1, 2 }

\* The one transcript text of the session runs.
SessionTexts == { << "hey" >> }

\* generateSessionId(): `session-${Date.now()}-${random}`
generateSessionId(rand) == [time |-> voiceNow, rand |-> rand]

\* startSession: setSessionId(generateSessionId()); clearSuggestions();
\* clearTranscript(); then the render in which the voice hook sees the empty
\* transcript.
startSession ==
    /\ \E rand \in SessionRandoms : aiSessionId' = generateSessionId(rand)
    /\ ClearSuggestionsBody
    /\ transcript' = << >>
    /\ VoiceEffects(transcript', voiceEnabled,
                    [op |-> "startSession", lenBefore |-> Len(suggestions),
                     indexBefore |-> currentSuggestionIndex,
                     transcriptBefore |-> transcript, sessionBefore |-> aiSessionId])
    /\ UNCHANGED << lenSeen, suggestionIdCounter, voiceNow, voiceEnabled, matcherOnFromEmpty >>
    /\ UNCHANGED << compositorVars, devicesVars, recorderVars, channelVars,
                    sourceVars, overlayVars, restVars >>

\* endSession: setSessionId(null)
endSession ==
    /\ aiSessionId # NoSession
    /\ aiSessionId' = NoSession
    /\ UNCHANGED << suggestVars, compositorVars, devicesVars, recorderVars, channelVars,
                    transcriptVars, voiceVars, sourceVars, overlayVars, restVars >>
    /\ lastOp' = [op |-> "endSession"]

NextSession ==
    \/ NextSuggest
    \/ \E text \in SessionTexts : addTranscriptSegment(text)
    \/ startSession
    \/ endSession

\* The voice matcher over the transcripts of consecutive sessions.
NextVoiceSession ==
    \/ \E text \in SessionTexts : addTranscriptSegment(text)
    \/ \E e \in BOOLEAN : VoiceSetEnabled(e)
    \/ startSession

----------------------------------------------------------------------------
\* RecordPage: the start flow (Start Recording, name card, countdown, recording,
\* stop, preview, discard) and the CountdownOverlay component
\*
\* The runs begin on the setup page with the Start Recording button enabled (a
\* webcam stream is held) and the canvas mounted: the canvas element is rendered
\* in every mode, so canvasRef.current is never null in a handler.

\* CountdownOverlay's default for startFrom; RecordPage passes none.
startFrom == 3

\* What the name field of the setup form holds: 0 ('') or a name.
PageNameCardTexts == { 0, 1 }

\* What /api/generate-name-card yields: an image url, or nothing (0) when the
\* request fails or the response carries no image_url.
NameCardImages == { 0, 1 }

InitPage ==
    /\ mode = "setup"
    /\ isStartingRecording = FALSE
    /\ isAIAvailable = TRUE
    /\ pageNameCardText = 0
    /\ nameCardFetch = "none"
    /\ windowNameCardImageUrl = 0
    /\ count = startFrom
    /\ countdownTimer = FALSE
    /\ effectDue = FALSE
    /\ pageMounted = TRUE
    /\ startLog = [presses |-> 0, activations |-> 0, ticks |-> 0, completes |-> 0,
                   compositor |-> 0, recorder |-> 0, session |-> 0]

\* What a step of the page alone leaves as it is.
OnlyPage ==
    UNCHANGED << suggestVars, compositorVars, devicesVars, recorderVars, channelVars,
                 transcriptVars, sessionVars, voiceVars, sourceVars, overlayVars,
                 geometryVars, wireVars, inboundVars >>

\* An event handler of the page runs: the page is mounted and the effects of the
\* last commit have run.
PageIdle == pageMounted /\ ~effectDue

\* The user edits the name field of the setup form.
setNameCardText(n) ==
    /\ PageIdle
    /\ mode = "setup"
    /\ n # pageNameCardText
    /\ pageNameCardText' = n
    /\ UNCHANGED << mode, isStartingRecording, isAIAvailable, nameCardFetch,
                    windowNameCardImageUrl, count, countdownTimer, effectDue,
                    pageMounted, startLog >>
    /\ OnlyPage
    /\ lastOp' = [op |-> "setNameCardText", name |-> n]

\* setMode('countdown') at the end of handleInitiateRecording: the overlay becomes
\* active in the next render.
EnterCountdown(url) ==
    /\ windowNameCardImageUrl' = url
    /\ isStartingRecording' = FALSE
    /\ mode' = "countdown"
    /\ effectDue' = TRUE

\* handleInitiateRecording up to its await (the button is rendered on the setup
\* page and the handler returns at once while isStartingRecording): with a name
\* and the AI service it requests the name card, else it goes on to the end.
handleInitiateRecording ==
    /\ PageIdle
    /\ mode = "setup"
    /\ ~isStartingRecording
    /\ IF pageNameCardText # 0 /\ isAIAvailable
       THEN /\ isStartingRecording' = TRUE
            /\ nameCardFetch' = "pending"
            /\ startLog' = [startLog EXCEPT !.presses = @ + 1]
            /\ UNCHANGED << mode, windowNameCardImageUrl, effectDue >>
       ELSE /\ EnterCountdown(0)
            /\ startLog' = [startLog EXCEPT !.presses = @ + 1, !.activations = @ + 1,
                                            !.ticks = 0, !.completes = 0]
            /\ UNCHANGED nameCardFetch
    /\ UNCHANGED << isAIAvailable, pageNameCardText, count, countdownTimer, pageMounted >>
    /\ OnlyPage
    /\ lastOp' = [op |-> "handleInitiateRecording"]

\* The name-card request settles and handleInitiateRecording runs to its end.
NameCardFetchSettles(url) ==
    /\ pageMounted
    /\ nameCardFetch = "pending"
    /\ nameCardFetch' = "none"
    /\ EnterCountdown(url)
    /\ startLog' = [startLog EXCEPT !.activations = @ + 1, !.ticks = 0, !.completes = 0]
    /\ UNCHANGED << isAIAvailable, pageNameCardText, count, countdownTimer, pageMounted >>
    /\ OnlyPage
    /\ lastOp' = [op |-> "nameCardFetchSettles", url |-> url]

\* RecordPage renders again during the countdown: useMediaRecorder is given a new
\* options object in every render, so startRecording, and with it onComplete, is a
\* new function and the effect of CountdownOverlay runs again.
PageRerender ==
    /\ PageIdle
    /\ mode = "countdown"
    /\ effectDue' = TRUE
    /\ UNCHANGED << mode, isStartingRecording, isAIAvailable, pageNameCardText,
                    nameCardFetch, windowNameCardImageUrl, count, countdownTimer,
                    pageMounted, startLog >>
    /\ OnlyPage
    /\ lastOp' = [op |-> "pageRerender"]

\* The effect of CountdownOverlay while isActive is false: setCount(startFrom).
\* The cleanup of the effect before it has cleared the timeout.
CountdownEffect_inactive ==
    /\ pageMounted /\ effectDue
    /\ mode # "countdown"
    /\ count' = startFrom
    /\ countdownTimer' = FALSE
    /\ effectDue' = (count # startFrom)
    /\ UNCHANGED << mode, isStartingRecording, isAIAvailable, pageNameCardText,
                    nameCardFetch, windowNameCardImageUrl, pageMounted, startLog >>
    /\ OnlyPage
    /\ lastOp' = [op |-> "countdownInactive", countBefore |-> count]

\* The effect while active with count > 0: the one-second timeout is set.
CountdownEffect_arm ==
    /\ pageMounted /\ effectDue
    /\ mode = "countdown"
    /\ count > 0
    /\ countdownTimer' = TRUE
    /\ effectDue' = FALSE
    /\ UNCHANGED << mode, isStartingRecording, isAIAvailable, pageNameCardText,
                    nameCardFetch, windowNameCardImageUrl, count, pageMounted, startLog >>
    /\ OnlyPage
    /\ lastOp' = [op |-> "countdownArm"]

\* The timeout fires: setCount((prev) => prev - 1).
CountdownTimerFires ==
    /\ PageIdle
    /\ countdownTimer
    /\ countdownTimer' = FALSE
    /\ count' = count - 1
    /\ effectDue' = TRUE
    /\ startLog' = [startLog EXCEPT !.ticks = @ + 1]
    /\ UNCHANGED << mode, isStartingRecording, isAIAvailable, pageNameCardText,
                    nameCardFetch, windowNameCardImageUrl, pageMounted >>
    /\ OnlyPage
    /\ lastOp' = [op |-> "countdownTick"]

\* (mutant) the session-start clear applied after the name card was added.
SessionStartQueue_ClearLast(prev, withCard, id) == << >>

\* The queue after the state updates handleCountdownComplete enqueues in one
\* batch: setSuggestions([]) of startSession's clearSuggestions, then the
\* functional update (prev) => [...prev, newSuggestion] of addSuggestion.
SessionStartQueue(prev, withCard, id) ==
    LET cleared == << >>
    IN  IF withCard THEN Append(cleared, id) ELSE cleared

\* handleCountdownComplete: compositor.start(); startRecording(...);
\* startSession(); addSuggestion(name card) when a name and a name-card image are
\* there; setMode('recording').
handleCountdownComplete ==
    LET withCard == pageNameCardText # 0 /\ windowNameCardImageUrl # 0
    IN  /\ Compositor_startBody
        /\ startRecordingBody
        /\ \E rand \in SessionRandoms : aiSessionId' = generateSessionId(rand)
        /\ withCard => suggestionIdCounter < MaxSuggestionIds
        /\ suggestions' = SessionStartQueue(suggestions, withCard, suggestionIdCounter + 1)
        /\ suggestionIdCounter' = IF withCard THEN suggestionIdCounter + 1
                                  ELSE suggestionIdCounter
        /\ currentSuggestionIndex' = 0
        /\ nav' = [nexts |-> 0, from |-> 0, afterAdds |-> TRUE]
        /\ transcript' = << >>
        /\ VoiceEffects(transcript', voiceEnabled,
                        [op |-> "handleCountdownComplete", withCard |-> withCard,
                         card |-> suggestionIdCounter + 1,
                         queueBefore |-> suggestions,
                         indexBefore |-> currentSuggestionIndex])
        /\ mode' = "recording"
        /\ startLog' = [startLog EXCEPT !.completes = @ + 1, !.compositor = @ + 1,
                                        !.recorder = @ + 1, !.session = @ + 1]
        /\ UNCHANGED << lenSeen, voiceNow, voiceEnabled, matcherOnFromEmpty, pageMounted >>

\* handleCountdownComplete when new MediaRecorder(...) throws in startRecording:
\* compositor.start() has run, the exception leaves the handler and the effect
\* that called it, and React, finding no error boundary, unmounts the page.
handleCountdownCompleteThrows ==
    /\ Compositor_startBody
    /\ startRecordingThrowsBody
    /\ pageMounted' = FALSE
    /\ startLog' = [startLog EXCEPT !.completes = @ + 1, !.compositor = @ + 1]
    /\ UNCHANGED << suggestVars, transcriptVars, sessionVars, voiceVars, mode >>
    /\ lastOp' = [op |-> "handleCountdownCompleteThrows"]

\* The effect while active with count <= 0: onComplete().
CountdownEffect_complete ==
    /\ pageMounted /\ effectDue
    /\ mode = "countdown"
    /\ count <= 0
    /\ handleCountdownComplete \/ handleCountdownCompleteThrows
    /\ countdownTimer' = FALSE
    /\ effectDue' = pageMounted'
    /\ UNCHANGED << isStartingRecording, isAIAvailable, pageNameCardText, nameCardFetch,
                    windowNameCardImageUrl, count >>
    /\ UNCHANGED << devicesVars, channelVars, sourceVars, overlayVars, geometryVars,
                    wireVars, inboundVars >>

\* A suggestion arrives while recording.
PageAddSuggestion ==
    /\ PageIdle
    /\ mode = "recording"
    /\ addSuggestion

\* The Tab key while recording: nextSuggestion().
PageNextSuggestion ==
    /\ PageIdle
    /\ mode = "recording"
    /\ nextSuggestion

\* The AIProvider renders with the queue as it is now.
PageRenderAIProvider ==
    /\ PageIdle
    /\ RenderAIProvider

\* handleStopRecording (the Stop button or Escape, while recording):
\* stopRecording(); compositor.stop(); compositor.clearOverlay();
\* setHasOverlay(false); endSession().
handleStopRecording ==
    /\ PageIdle
    /\ mode = "recording"
    /\ stopRecordingBody
    /\ Compositor_stopBody
    /\ overlayImage' = 0
    /\ overlayLoads' = ClearedSince(overlayLoads)
    /\ latestCall' = NoCall
    /\ hasOverlay' = FALSE
    /\ aiSessionId' = NoSession
    /\ UNCHANGED << overlayOptions, fetches, insertCounter, overlayImageUrl,
                    isGeneratingImage, overlayPosition >>
    /\ UNCHANGED << suggestVars, devicesVars, channelVars, transcriptVars, voiceVars,
                    sourceVars, geometryVars, wireVars, inboundVars, pageVars >>
    /\ lastOp' = [op |-> "handleStopRecording"]

\* The effect on recordedBlob: setMode('preview') once a blob is there.
RecordedBlobEffect ==
    /\ PageIdle
    /\ ~recordedBlob.isNull
    /\ mode # "preview"
    /\ mode' = "preview"
    /\ UNCHANGED << isStartingRecording, isAIAvailable, pageNameCardText, nameCardFetch,
                    windowNameCardImageUrl, count, countdownTimer, effectDue,
                    pageMounted, startLog >>
    /\ OnlyPage
    /\ lastOp' = [op |-> "recordedBlobEffect"]

\* handleDiscard (on the preview page): clearRecording(); setMode('setup').
handleDiscard ==
    /\ PageIdle
    /\ mode = "preview"
    /\ ~recordedBlob.isNull
    /\ clearRecordingBody
    /\ mode' = "setup"
    /\ UNCHANGED << isStartingRecording, isAIAvailable, pageNameCardText, nameCardFetch,
                    windowNameCardImageUrl, count, countdownTimer, effectDue,
                    pageMounted, startLog >>
    /\ UNCHANGED << suggestVars, compositorVars, devicesVars, channelVars,
                    transcriptVars, sessionVars, voiceVars, sourceVars, overlayVars,
                    geometryVars, wireVars, inboundVars >>
    /\ lastOp' = [op |-> "handleDiscard"]

NextPage ==
    \/ \E n \in PageNameCardTexts : setNameCardText(n)
    \/ handleInitiateRecording
    \/ \E url \in NameCardImages : NameCardFetchSettles(url)
    \/ PageRerender
    \/ CountdownEffect_inactive
    \/ CountdownEffect_arm
    \/ CountdownTimerFires
    \/ CountdownEffect_complete
    \/ PageAddSuggestion
    \/ PageNextSuggestion
    \/ PageRenderAIProvider
    \/ handleStopRecording
    \/ \E r \in 1..MaxRecorders, size \in { 0, 1 } : RecorderStopTask(r, size)
    \/ RecordedBlobEffect
    \/ handleDiscard

----------------------------------------------------------------------------
\* Specifications, one per component

\* Outside SpecChannel the channel is a hook that is never enabled.
InitChannelOff == InitChannelIdle /\ chanVariant = "hook" /\ hasToken = TRUE

\* The initial state of the components added last.
InitRest == InitGeometry /\ InitWire /\ InitInbound /\ InitPage

InitIdle ==
    /\ InitSuggest /\ InitCompositor /\ InitDevices /\ InitRecorder /\ InitChannelOff
    /\ InitTranscript /\ InitSession /\ InitVoice /\ InitSources /\ InitOverlay
    /\ InitRest
    /\ lastOp = [op |-> "init"]

SpecSuggestInit == InitIdle

SpecSuggest == SpecSuggestInit /\ [][NextSuggest]_vars

SpecCompositorInit == InitIdle

SpecCompositor == SpecCompositorInit /\ [][NextCompositor]_vars

SpecDevicesInit == InitIdle

SpecDevices == SpecDevicesInit /\ [][NextDevices]_vars

SpecRecorderInit == InitIdle

SpecRecorder == SpecRecorderInit /\ [][NextRecorder]_vars

SpecChannelInit ==
    /\ InitSuggest /\ InitCompositor /\ InitDevices /\ InitRecorder /\ InitChannel
    /\ InitTranscript /\ InitSession /\ InitVoice /\ InitSources /\ InitOverlay
    /\ InitRest
    /\ lastOp = [op |-> "init"]

SpecChannel == SpecChannelInit /\ [][NextChannel]_vars

SpecVoiceInit == InitIdle

SpecVoice == SpecVoiceInit /\ [][NextVoice]_vars

SpecSessionInit == InitIdle

SpecGeometryInit ==
    /\ InitSuggest /\ InitCompositor /\ InitDevices /\ InitRecorder /\ InitChannelOff
    /\ InitTranscript /\ InitSession /\ InitVoice /\ InitSources /\ InitOverlay
    /\ InitGeometryInputs /\ InitWire /\ InitInbound /\ InitPage
    /\ lastOp = [op |-> "init"]

SpecGeometry == SpecGeometryInit /\ [][NextGeometry]_vars

SpecFrameInit == InitIdle

SpecFrame == SpecFrameInit /\ [][NextFrame]_vars

SpecInsertInit == InitIdle

SpecInsert == SpecInsertInit /\ [][NextInsert]_vars

SpecSession == SpecSessionInit /\ [][NextSession]_vars

SpecVoiceSessionInit == InitIdle

SpecVoiceSession == SpecVoiceSessionInit /\ [][NextVoiceSession]_vars

\* The hook with a token in localStorage, before its first enabled render.
SpecOutboundInit ==
    /\ InitSuggest /\ InitCompositor /\ InitDevices /\ InitRecorder
    /\ InitChannelIdle /\ chanVariant = "hook" /\ hasToken \in BOOLEAN
    /\ InitTranscript /\ InitSession /\ InitVoice /\ InitSources /\ InitOverlay
    /\ InitRest
    /\ lastOp = [op |-> "init"]

SpecOutbound == SpecOutboundInit /\ [][NextOutbound]_vars

SpecKeepaliveInit == SpecChannelInit

SpecKeepalive == SpecKeepaliveInit /\ [][NextKeepalive]_vars

SpecInboundInit == SpecOutboundInit

SpecInbound == SpecInboundInit /\ [][NextInbound]_vars

\* The start flow of the record page, with or without the AI service.
SpecPageInit ==
    /\ InitSuggest /\ InitCompositor /\ InitDevices /\ InitRecorder /\ InitChannelOff
    /\ InitTranscript /\ InitSession /\ InitVoice /\ InitSources /\ InitOverlay
    /\ InitGeometry /\ InitWire /\ InitInbound
    /\ mode = "setup"
    /\ isStartingRecording = FALSE
    /\ isAIAvailable \in BOOLEAN
    /\ pageNameCardText = 0
    /\ nameCardFetch = "none"
    /\ windowNameCardImageUrl = 0
    /\ count = startFrom
    /\ countdownTimer = FALSE
    /\ effectDue = FALSE
    /\ pageMounted = TRUE
    /\ startLog = [presses |-> 0, activations |-> 0, ticks |-> 0, completes |-> 0,
                   compositor |-> 0, recorder |-> 0, session |-> 0]
    /\ lastOp = [op |-> "init"]

SpecPage == SpecPageInit /\ [][NextPage]_vars

----------------------------------------------------------------------------
\* Claims


\* C1: after any interleaving of the queue operations the pointer is in range:
\* 0 <= currentSuggestionIndex < length on a non-empty queue, and 0 on an empty one.
C1_PointerInRange ==
    IF Len(suggestions) = 0
    THEN currentSuggestionIndex = 0
    ELSE 0 <= currentSuggestionIndex /\ currentSuggestionIndex < Len(suggestions)

LiveStreams(kind) ==
    { i \in 1..Len(streams) : streams[i].kind = kind /\ streams[i].tracks # {} }

\* C6: as long as the requests of a kind are made one after another (none begun
\* while another of that kind was pending), the only live stream of that kind is
\* the installed one, nothing of that kind is live while a request is pending (the
\* old tracks are stopped before the request is issued), and a successful request
\* leaves the new stream installed and live.
C6_SequentialReacquire ==
    \A k \in SourceKinds :
        ~overlapped[k] =>
            /\ LiveStreams(k) \subseteq { RefOf(k) }
            /\ (\E c \in deviceCalls : c.kind = k) => LiveStreams(k) = {}
            /\ (lastOp.op = "requestResolved" /\ lastOp.kind = k)
                  => (RefOf(k) = Len(streams) /\ LiveStreams(k) = { RefOf(k) })

C6_Witness ==
    /\ lastOp.op = "requestResolved"
    /\ lastOp.kind = "webcam"
    /\ ~overlapped["webcam"]
    /\ lastOp.refBefore = 1
    /\ lastOp.liveBefore
    /\ streams[1].kind = "webcam"
    /\ streams[1].tracks = {}
    /\ webcamRef = 2
    /\ LiveStreams("webcam") = { 2 }

\* C7: under any interleaving of requests, overlapping ones included, every acquired
\* stream that is not the installed handle of its kind has all its tracks stopped.
C7_NoSecondLiveHandle ==
    \A k \in SourceKinds : LiveStreams(k) \subseteq { RefOf(k) }

\* C8: when a request fails (and nothing else ran while it was suspended) an error
\* message is stored, the stream installed before the call is still installed and,
\* if it was live, still live, and the other kind's handle is as it was.
C8_FailureLeavesHandles ==
    (lastOp.op = "requestFailed" /\ ~lastOp.disturbed) =>
        /\ mediaError = lastOp.thrown
        /\ RefOf(lastOp.kind) = lastOp.refBefore
        /\ lastOp.liveBefore => IsLive(RefOf(lastOp.kind))
        /\ RefOf(OtherKind(lastOp.kind)) = lastOp.otherBefore
        /\ lastOp.otherLiveBefore => IsLive(RefOf(OtherKind(lastOp.kind)))

\* C2: for the schedule start, record a, pause, wait p, resume, record b, stop, the
\* duration handed to onStop is a + b, the time spent recording.
C2_DurationExcludesPause ==
    (lastOp.op = "onstop" /\ phase = "stopped") => lastOp.finalDuration = activeTime

\* C3 (as stated): when a socket closes while the channel is enabled with a session
\* id and the close code is neither 1000 nor 4001, exactly one reconnect attempt is
\* scheduled, after the configured delay; a close with 1000 or 4001 schedules none.
C3_ReconnectOnAbnormalClose ==
    (lastOp.op = "onclose" /\ lastOp.on) =>
        LET scheduled == { t \in reconnectTimers : t.id = chanTimerCounter }
        IN  IF lastOp.code \notin { 1000, 4001 }
            THEN /\ Cardinality(reconnectTimers) = lastOp.timersBefore + 1
                 /\ \A t \in scheduled :
                       t.delay = IF chanVariant = "hook" THEN HookReconnectDelay
                                 ELSE reconnectDelay * Pow2(lastOp.attemptsBefore)
            ELSE Cardinality(reconnectTimers) = lastOp.timersBefore

\* C3 (amended): as C3, except that the TranscriptionWebSocket class schedules no
\* reconnect attempt once maxReconnectAttempts consecutive attempts have been made
\* without the socket opening.
C3_ReconnectUnlessCapped ==
    (lastOp.op = "onclose" /\ lastOp.on) =>
        LET scheduled == { t \in reconnectTimers : t.id = chanTimerCounter }
            capped == chanVariant = "class" /\ lastOp.attemptsBefore >= 5
        IN  IF lastOp.code \notin { 1000, 4001 } /\ ~capped
            THEN /\ Cardinality(reconnectTimers) = lastOp.timersBefore + 1
                 /\ \A t \in scheduled :
                       t.delay = IF chanVariant = "hook" THEN HookReconnectDelay
                                 ELSE reconnectDelay * Pow2(lastOp.attemptsBefore)
            ELSE Cardinality(reconnectTimers) = lastOp.timersBefore

\* C3 witness: a socket of the enabled channel has just closed with 1006 and one
\* reconnect timeout was scheduled by that close.
C3_Witness ==
    /\ lastOp.op = "onclose"
    /\ lastOp.on
    /\ lastOp.code = 1006
    /\ Cardinality(reconnectTimers) = lastOp.timersBefore + 1

\* C4: at most one socket of the channel is connecting or open at any time, and a
\* connect made while a socket is open creates no socket.
C4_AtMostOneLiveSocket ==
    /\ Cardinality(LiveSockets) <= 1
    /\ (lastOp.op \in { "connect", "reconnectTimer" } /\ lastOp.openBefore)
          => Len(sockets) = lastOp.socketsBefore

\* C5: while the channel is disabled or disconnected no reconnect timeout is
\* pending and no socket is created, whatever code the closing socket reports.
C5_QuietWhenOff ==
    ~ChannelOn =>
        /\ reconnectTimers = {}
        /\ ~(lastOp.op = "reconnectTimer" /\ Len(sockets) > lastOp.socketsBefore)

\* The callbacks the last scan invoked.
InvokedByLastScan == SubSeq(invoked, lastOp.invokedBefore + 1, Len(invoked))

\* C11: with the matcher enabled from the start, the transcript "hey", "mike show
\* that" (two increments) gets onShow invoked exactly once in total, incremental
\* scans and rolling-window scans together; and a matching phrase that arrives
\* less than 2 s after a firing invokes no callback.
C11_ShowOnceForSplitPhrase ==
    /\ ( /\ matcherOnFromEmpty
         /\ [i \in 1..Len(transcript) |-> transcript[i].text]
               = << << "hey" >>, << "mike", "show", "that" >> >> )
          => ( Len(invoked) = 1 /\ invoked[1].command = "show" )
    /\ ( /\ lastOp.op = "scan"
         /\ lastOp.source = "incremental"
         /\ lastOp.invokedBefore > 0
         /\ invoked[lastOp.invokedBefore].at > voiceNow - 2 )
          => InvokedByLastScan = << >>

\* The commands with a pattern that matches the text, by the pattern table alone.
MatchingCommands(text) ==
    { WAKE_WORD_PATTERNS[i].command : i \in
        { j \in 1..Len(WAKE_WORD_PATTERNS) :
            \E k \in 1..Len(WAKE_WORD_PATTERNS[j].patterns) :
                PatternTest(WAKE_WORD_PATTERNS[j].patterns[k], text) } }

\* C12: a scan chooses the first of show, next, clear, dismiss that has a matching
\* pattern, and invokes exactly that callback when the last invocation is more
\* than 2 s old (or there was none), no callback when nothing matches or the last
\* invocation is less than 2 s old, and never more than one.
C12_FirstMatchOneCallback ==
    lastOp.op = "scan" =>
        LET order == << "show", "next", "clear", "dismiss" >>
            hits == { i \in 1..4 : order[i] \in MatchingCommands(lastOp.text) }
            chosen == IF hits = {} THEN "none"
                      ELSE order[CHOOSE i \in hits : \A j \in hits : i <= j]
            before == lastOp.invokedBefore
            active == before > 0 /\ invoked[before].at > voiceNow - 2
            elapsed == before = 0 \/ invoked[before].at < voiceNow - 2
        IN  /\ Len(InvokedByLastScan) <= 1
            /\ \A i \in 1..Len(InvokedByLastScan) : InvokedByLastScan[i].command = chosen
            /\ (chosen # "none" /\ elapsed) => Len(InvokedByLastScan) = 1
            /\ (chosen = "none" \/ active) => InvokedByLastScan = << >>

\* C12 witness: a scan of a text that matches two commands has invoked onShow.
C12_Witness ==
    /\ lastOp.op = "scan"
    /\ Cardinality(MatchingCommands(lastOp.text)) >= 2
    /\ Len(InvokedByLastScan) = 1
    /\ InvokedByLastScan[1].command = "show"

\* No task queued by MediaRecorder.stop() is waiting to run.
NoStopQueued == \A r \in 1..Len(recorders) : ~recorders[r].stopPending

\* C13: pauseRecording acts only on a recording encoder (it becomes paused) and
\* resumeRecording only on a paused one (it records again); in every other state
\* each leaves isRecording, isPaused and the encoder alone; and, outside the
\* moment between stop() and its stop event, isPaused is true exactly when the
\* encoder is paused.
C13_PauseResumeGuarded ==
    /\ [](NoStopQueued => (isPaused <=> RecorderState = "paused"))
    /\ [][ lastOp'.op = "pauseRecording" =>
             IF RecorderState = "recording"
             THEN RecorderState' = "paused" /\ isPaused' /\ UNCHANGED isRecording
             ELSE UNCHANGED << isRecording, isPaused, recorders >> ]_vars
    /\ [][ lastOp'.op = "resumeRecording" =>
             IF RecorderState = "paused"
             THEN RecorderState' = "recording" /\ ~isPaused' /\ UNCHANGED isRecording
             ELSE UNCHANGED << isRecording, isPaused, recorders >> ]_vars

\* C14: the blob handed over by a recorder's stop event holds every non-empty
\* slice that recorder emitted, each once and in emission order, and nothing
\* else; and once stopRecording has run no duration timer is left running.
C14_BlobIsTheSessionsSlices ==
    /\ lastOp.op = "onstop" =>
          lastOp.blob = [i \in 1..Len(recorders[lastOp.rec].emitted) |->
                            << lastOp.rec, recorders[lastOp.rec].emitted[i] >>]
    /\ lastOp.op = "stopRecording" => durationTimers = {}

\* The recorders whose session is live: recording or paused.
LiveRecorders == { r \in 1..Len(recorders) : recorders[r].state # "inactive" }

\* C15: at most one audio context is open, at most one encoder is live and at most
\* one duration timer runs; an audio context is open while a session is live; and
\* once no session is live and no stop event is outstanding, no audio context is
\* open and no duration timer runs.
C15_OneContextPerSession ==
    /\ Cardinality(audioContexts) <= 1
    /\ Cardinality(LiveRecorders) <= 1
    /\ Cardinality(durationTimers) <= 1
    /\ LiveRecorders # {} => audioContexts # {}
    /\ (LiveRecorders = {} /\ NoStopQueued) => (audioContexts = {} /\ durationTimers = {})

C17_NextPrevModulo ==
    LET n == Len(suggestions)
        i == currentSuggestionIndex
    IN  /\ lastOp.op = "nextSuggestion"
              => i = IF n = 0 THEN lastOp.indexBefore ELSE (lastOp.indexBefore + 1) % n
        /\ lastOp.op = "prevSuggestion"
              => i = IF n = 0 THEN lastOp.indexBefore ELSE (lastOp.indexBefore - 1) % n
        /\ ( /\ n > 0
             /\ lastOp.op \in { "nextSuggestion", "prevSuggestion" }
             /\ lastOp.prior.op \in { "nextSuggestion", "prevSuggestion" } \ { lastOp.op } )
              => i = lastOp.prior.indexBefore
        /\ (n > 0 /\ nav.nexts = n) => i = nav.from

\* C18: after startSession the suggestion queue is empty, currentSuggestionIndex
\* is 0, the transcript is empty and the session id is one generated by that call;
\* clearSuggestions alone empties the queue and resets the pointer and leaves the
\* transcript (and the session id) as they were.
C18_StartSessionResets ==
    /\ lastOp.op = "startSession"
          => /\ suggestions = << >>
             /\ currentSuggestionIndex = 0
             /\ transcript = << >>
             /\ aiSessionId # NoSession
             /\ \E rand \in SessionRandoms : aiSessionId = generateSessionId(rand)
    /\ lastOp.op = "clearSuggestions"
          => /\ suggestions = << >>
             /\ currentSuggestionIndex = 0
             /\ transcript = lastOp.transcriptBefore
             /\ aiSessionId = lastOp.sessionBefore

\* C18 witness: startSession was called when the queue held entries, the pointer
\* was not 0, the transcript held segments and an earlier session id was set.
C18_Witness ==
    /\ lastOp.op = "startSession"
    /\ lastOp.lenBefore >= 2
    /\ lastOp.indexBefore > 0
    /\ lastOp.transcriptBefore # << >>
    /\ lastOp.sessionBefore # NoSession
    /\ aiSessionId # NoSession

\* C19: when the image of a setOverlayImage(url) call fails to load, the promise
\* rejects and the overlay slot holds what it held before (an image or none), which
\* is what drawOverlay draws; the insert handler awaiting the call leaves hasOverlay,
\* overlayImageUrl and the suggestion queue as they were.
C19_FailedLoadKeepsOverlay ==
    lastOp.op = "overlayLoadFailed"
       => /\ lastOp.promise = "rejected"
          /\ overlayImage = lastOp.overlayBefore
          /\ drawOverlay = IF lastOp.overlayBefore = 0
                           THEN << >>
                           ELSE << [op |-> "overlay", source |-> lastOp.overlayBefore] >>
          /\ hasOverlay = lastOp.hasOverlayBefore
          /\ overlayImageUrl = lastOp.overlayImageUrlBefore
          /\ suggestions = lastOp.suggestionsBefore
          /\ currentSuggestionIndex = lastOp.indexBefore

\* C19 witness: the image of an inserted suggestion failed to load while an earlier
\* overlay was shown; that overlay is still set and the suggestion is still queued.
C19_Witness ==
    /\ lastOp.op = "overlayLoadFailed"
    /\ lastOp.owner = "imageUrl"
    /\ lastOp.overlayBefore # 0
    /\ overlayImage = lastOp.overlayBefore
    /\ hasOverlay
    /\ \E i \in 1..Len(suggestions) : suggestions[i] = lastOp.suggestion

\* The draw calls of the last frame without the clear and without the overlay.
LayoutOps == SelectSeq(canvasOps, LAMBDA d : d.op \notin { "clear", "overlay" })

FrameJustRendered ==
    \/ lastOp.op = "frame"
    \/ lastOp.op = "start" /\ ~lastOp.wasRunning

C21_PipRectInCorner ==
    lastPip.set =>
       LET r == lastPip
           left == r.position \in { "top-left", "bottom-left" }
           top == r.position \in { "top-left", "top-right" }
       IN  /\ r.width = PIP_SIZES(r.variant)[r.size].width
           /\ r.height = PIP_SIZES(r.variant)[r.size].height
           /\ r.x >= 0 /\ r.y >= 0
           /\ r.x + r.width <= 1920
           /\ r.y + r.height <= 1080
           /\ IF left THEN r.x = 32 ELSE 1920 - (r.x + r.width) = 32
           /\ IF top THEN r.y = 32 ELSE 1080 - (r.y + r.height) = 32

\* C21 witness: the large legacy inset placed top-right.
C21_Witness ==
    /\ lastPip.set
    /\ lastPip.variant = "legacy"
    /\ lastPip.position = "top-right"
    /\ lastPip.size = "large"
    /\ lastPip.x = 1920 - 640 - 32
    /\ lastPip.y = 32

C23_NoLiveTrackAfterTeardown ==
    /\ lastOp.op \in { "stopAll", "unmount" }
          => \A k \in SourceKinds : LiveStreams(k) = {}
    /\ (~devicesMounted /\ deviceCalls = {})
          => \A k \in SourceKinds : LiveStreams(k) = {}

\* C24: when the image-generation request of the insert handler fails (the fetch
\* throws, or the response is not ok or carries no image_url), the overlay (image,
\* options, preview position, active flag) and the suggestion queue are as they were
\* before the insert and isGeneratingImage is false again.
C24_FailedGenerationChangesNothing ==
    (lastOp.op = "fetchSettled" /\ lastOp.outcome \in { "none", "throws" })
       => /\ ~lastOp.changedAtCall
          /\ overlayImage = lastOp.overlayBefore
          /\ overlayOptions = lastOp.optionsBefore
          /\ overlayPosition = lastOp.positionBefore
          /\ hasOverlay = lastOp.hasOverlayBefore
          /\ overlayImageUrl = lastOp.overlayImageUrlBefore
          /\ suggestions = lastOp.suggestionsBefore
          /\ currentSuggestionIndex = lastOp.indexBefore
          /\ ~isGeneratingImage

\* C25: every non-empty slice a recorder has emitted was handed to sendAudioChunk,
\* the onDataAvailable callback the page passes to the recorder hook, once, and
\* the slices were handed over in the order they were emitted.
C25_SlicesHandedToSend ==
    \A r \in 1..Len(recorders) :
        SelectSeq(audioChunkCalls, LAMBDA c : c[1] = r)
            = [k \in 1..Len(recorders[r].emitted) |-> << r, recorders[r].emitted[k] >>]

\* The send functions of the hook and the completion of an encoding.
SendOps == { "sendAudioChunk", "readerLoadEnd", "requestSuggestion", "detectMoments" }

\* C26: a send function that runs, or an encoding that completes, while the
\* socket of the channel is not open transmits nothing and does not throw.
C26_NothingSentUnlessOpen ==
    (lastOp.op \in SendOps /\ ~lastOp.open) => lastOp.outcome \in { "none", "dropped" }

\* The events the handler only logs or ignores.
QuietMessage(data) ==
    \/ data.json # "object"
    \/ data.type \in { "connected", "pong", "no_suggestion", "rate_limited",
                        "rate_limits", "error", "unknown" }

C29_OneKeepaliveTimer ==
    /\ (lastOp.op = "ping" /\ lastOp.sent) => sockets[lastOp.socket].state = "open"
    /\ Cardinality(pingIntervals) <= 1
    /\ chanVariant = "hook" => \A p \in pingIntervals : sockets[p.socket].state = "open"

\* C30: when a load of the overlay image completes after the overlay was cleared
\* (clearOverlay() or setOverlayImage(null) was called while the load was in
\* flight), the overlay is still absent: the later clear wins.
C30_LaterClearWins ==
    (lastOp.op = "overlayLoaded" /\ lastOp.clearedSince) => overlayImage = 0

\* C31: once the loads of the setOverlayImage(url) calls have settled and the load
\* of the call begun last has succeeded, the overlay is the image of that call,
\* whichever load completed first.
C31_LaterCallWins ==
    (latestCall.loaded /\ overlayLoads = {}) => overlayImage = latestCall.url

\* C32: a close event of a socket other than the one the channel references leaves
\* the bookkeeping of the referenced socket alone: the reference and the keepalive
\* timer stay, and (hook) isConnected tells whether the referenced socket is open.
C32_StaleCloseLeavesNewerSocket ==
    [][ (lastOp'.op = "onclose" /\ wsRef # 0 /\ wsRef # lastOp'.socket)
           => /\ wsRef' = wsRef
              /\ pingIntervalRef' = pingIntervalRef
              /\ pingIntervals' = pingIntervals
              /\ chanVariant = "hook"
                    => (isConnected' <=> sockets'[wsRef'].state = "open") ]_vars

\* C33: lastProcessedIndex never exceeds the length of the transcript, and a
\* segment appended while the matcher is enabled is scanned by the incremental
\* path in the render that follows.
C33_IndexWithinTranscript ==
    /\ lastProcessedIndex <= Len(transcript)
    /\ lastOp.op = "incremental" => ~voiceEnabled

\* C34: a dataavailable or stop event of a stopped recorder that is older than the
\* recorder of the current session adds no slice to the session's chunks, leaves its audio context
\* open, and neither resets isRecording nor publishes a blob.
C34_StaleEncoderEventsIgnored ==
    [][ ( /\ lastOp'.op \in { "dataavailable", "onstop" }
          /\ lastOp'.rec < recorderRef
          /\ recorders[lastOp'.rec].state = "inactive" )
           => UNCHANGED << chunksRef, audioContextRef, audioContexts, isRecording,
                           recordedBlob >> ]_vars

\* C35: an audio chunk is transmitted on the socket that was open when
\* sendAudioChunk was called for it, and not before a chunk of an earlier call
\* whose encoding is still running.
C35_ChunksInOrderOnTheirSocket ==
    (lastOp.op = "readerLoadEnd" /\ lastOp.outcome = "sent")
       => /\ lastOp.target = lastOp.callSocket
          /\ \A rd \in readers : rd.id > lastOp.id

\* C36: acceptSuggestion(id) and dismissSuggestion(id) with an id that is not in
\* the queue leave the queue and the pointer as they were.
C36_AbsentIdChangesNothing ==
    [][ ( /\ lastOp'.op \in { "acceptSuggestion", "dismissSuggestion" }
          /\ lastOp'.id \notin SeqRange(suggestions) )
           => UNCHANGED << suggestions, currentSuggestionIndex >> ]_vars

\* C37: when acceptSuggestion(id) or dismissSuggestion(id) removes an entry other
\* than the current one, getCurrentSuggestion returns the same suggestion after
\* the call as before it (the call is made through the callbacks of the latest
\* render).
C37_CurrentSurvivesOtherRemoval ==
    [][ ( /\ lastOp'.op \in { "acceptSuggestion", "dismissSuggestion" }
          /\ lastOp'.id \in SeqRange(suggestions)
          /\ lenSeen = Len(suggestions)
          /\ getCurrentSuggestion # 0
          /\ getCurrentSuggestion # lastOp'.id )
           => getCurrentSuggestion' = getCurrentSuggestion ]_vars

\* C38: when the start handler has run with a name set and a name-card image
\* stored, recording mode is entered with the name-card suggestion it added as the
\* only entry of the queue and the pointer at 0: the clear of startSession, made
\* in the same batch, does not remove it.
C38_NameCardSurvivesSessionStart ==
    ( lastOp.op = "handleCountdownComplete" /\ lastOp.withCard )
        => /\ mode = "recording"
           /\ suggestions = << lastOp.card >>
           /\ currentSuggestionIndex = 0
           /\ getCurrentSuggestion = lastOp.card

\* C38 (witness): the start handler has added the name card over a queue of two
\* or more suggestions of the session before, whose pointer was not at 0.
C38_Witness ==
    /\ lastOp.op = "handleCountdownComplete"
    /\ lastOp.withCard
    /\ Len(lastOp.queueBefore) >= 2
    /\ lastOp.indexBefore > 0
    /\ suggestions = << lastOp.card >>

\* The presses of Start Recording whose countdown has run to its onComplete.
PressesCompleted ==
    IF isStartingRecording \/ (mode = "countdown" /\ startLog.completes = 0)
    THEN startLog.presses - 1
    ELSE startLog.presses

\* C39: an activation of the countdown invokes onComplete at most once, and when it
\* does exactly startFrom ticks have passed; outside the countdown, once the effect
\* has run, the count is startFrom again; and every press of Start Recording whose
\* countdown has completed has started the compositor, the recorder and the AI
\* session once each.
C39_OneStartPerPress ==
    /\ startLog.completes <= 1
    /\ ( lastOp.op \in { "handleCountdownComplete", "handleCountdownCompleteThrows" }
           => startLog.ticks = startFrom )
    /\ ( (pageMounted /\ ~effectDue /\ mode # "countdown") => count = startFrom )
    /\ startLog.compositor = PressesCompleted
    /\ startLog.recorder = PressesCompleted
    /\ startLog.session = PressesCompleted

\* The delay the k-th reconnect attempt is to have, in ms: 1000 * 2^(k-1).
C40_Delay(k) ==
    CASE k = 1 -> 1000
      [] k = 2 -> 2000
      [] k = 3 -> 4000
      [] k = 4 -> 8000
      [] k = 5 -> 16000
      [] OTHER -> 0

\* The reconnect timeouts a step sets.
C40_Scheduled == reconnectTimers' \ reconnectTimers

\* C40: in the TranscriptionWebSocket class the attempt counter changes only by
\* one reconnect attempt being scheduled (from k - 1 to k, never past 5, with the
\* delay 1000 * 2^(k-1)) or by a successful open (to 0); a step sets at most one
\* reconnect timeout, none once the counter is 5; and a new socket is created only
\* by connect() of the owner or by a reconnect timeout firing.
C40_CappedBackoff ==
    [][ chanVariant = "class" =>
          /\ Cardinality(C40_Scheduled) <= 1
          /\ \A t \in C40_Scheduled :
                /\ reconnectAttempts < 5
                /\ reconnectAttempts' = reconnectAttempts + 1
                /\ t.delay = C40_Delay(reconnectAttempts')
          /\ reconnectAttempts' # reconnectAttempts
                => \/ C40_Scheduled # {}
                   \/ lastOp'.op = "onopen" /\ reconnectAttempts' = 0
          /\ lastOp'.op = "onopen" => reconnectAttempts' = 0
          /\ reconnectAttempts = 5 /\ lastOp'.op = "onclose" => C40_Scheduled = {}
          /\ Len(sockets') > Len(sockets)
                => lastOp'.op \in { "connect", "reconnectTimer" } ]_vars

\* C40 (witness): the socket of the 5th reconnect attempt has failed as well and
\* its close has scheduled nothing.
C40_Witness ==
    /\ chanVariant = "class"
    /\ lastOp.op = "onclose"
    /\ lastOp.code = 1006
    /\ lastOp.attemptsBefore = 5
    /\ reconnectAttempts = 5
    /\ reconnectTimers = {}

====
